---- MODULE Spec2Model ----
(***************************************************************************)
(* EventActions (dealfonso/eventactions): the action-sequence interpreter  *)
(* installed by addEventActions on one element, and the attachment         *)
(* bookkeeping kept in el._eventActions.                                   *)
(*                                                                         *)
(* One element `el` is modelled.  A run is one invocation of the async     *)
(* listener created by actionHandler; every action of the model is one     *)
(* uninterrupted piece of JavaScript: from a resumption (event dispatch,   *)
(* a dialog answered, a timer fired, an awaited promise settled) to the    *)
(* next await.                                                             *)
(*                                                                         *)
(* The attribute values of a step are inputs.  getElementOptions reads     *)
(* them all before executeAction is called; the model draws each group of  *)
(* options where executeAction or the handler first uses it, which gives   *)
(* the same behaviours because the values are independent of one another   *)
(* and nothing else reads them in between.                                 *)
(***************************************************************************)
EXTENDS Integers, Sequences, FiniteSets, TLC

\* Highest index of a numbered step that may carry attributes.
MaxSteps == 3
\* Listener invocations started by the dispatches of SpecAttach.
MaxRuns == 2
\* Listeners installed on el for one event type in SpecAttach.
MaxAttach == 2
\* Elements the selectors of a step resolve to in SpecEffects.
MaxTargets == 2
\* Highest suffix of the data-class-* attributes of an element in SpecClass.
MaxSuffix == 2

VARIABLES
    bootstrap,     \* typeof bootstrap !== 'undefined' && bootstrap.Modal
    attrs,         \* per event type: which steps have attributes on el
    el,            \* el.on<type>, el._eventActions, el's listener list
    runs,          \* the invocations of the listeners, in dispatch order
    dispatch,      \* what the latest event dispatch on el invoked
    pageHandler,   \* per event type: el.on<type> as the page set it
    phase,         \* per event type: how far the calls made on el have
                   \* come in the sequence attach, detach, trigger
    step,          \* one call of executeAction seen from its targets: the
                   \* options, the target elements before and after
    button         \* an element of the data-class-* family: its attributes
                   \* per suffix, its pending timers, the class changes made

vars == <<bootstrap, attrs, el, runs, dispatch, pageHandler, phase, step, button>>

EventTypes == {"click", "scroll"}


Remove(seq, x) == SelectSeq(seq, LAMBDA y : y # x)

Contains(seq, x) == \E k \in 1..Len(seq) : seq[k] = x

(***************************************************************************)
(* The element.                                                            *)
(*   on[t]        el.on<t>: "none" (null) or "native" (the page's handler) *)
(*   defined      el._eventActions exists                                  *)
(*   keys         own keys of el._eventActions in insertion order (the     *)
(*                order for..in visits them)                               *)
(*   orig[t]      el._eventActions[t]: "absent" (no such key), "null" or   *)
(*                "native"                                                 *)
(*   handlers[t]  el._eventActions.handlers[t]: a listener id, 0 when      *)
(*                there is no entry (or no handlers object)                *)
(*   listeners[t] listeners registered with addEventListener, in order     *)
(***************************************************************************)
NoEventActions ==
    [defined |-> FALSE, keys |-> <<>>,
     orig |-> [t \in EventTypes |-> "absent"],
     handlers |-> [t \in EventTypes |-> 0]]

FreshElement(on) ==
    [on |-> on, ea |-> NoEventActions,
     listeners |-> [t \in EventTypes |-> <<>>]]

HasHandlers(ea) == ea.defined /\ Contains(ea.keys, "handlers")

\* addEventActions line 351: el._eventActions && el._eventActions[eventType]
AlreadyAvailable(e, t) == e.ea.defined /\ e.ea.orig[t] = "native"

\* addHandler(el, eventType, handler)
addHandler(e, t, id) ==
    [e EXCEPT
       !.listeners[t] = Append(@, id),
       !.ea.keys = IF Contains(@, "handlers") THEN @ ELSE Append(@, "handlers"),
       !.ea.handlers[t] = id]

\* addEventActions(el, eventType, prefix) with a fresh listener closure id
addEventActions(e, t, id) ==
    IF AlreadyAvailable(e, t)
    THEN e
    ELSE addHandler(
           [e EXCEPT
              !.ea.defined = TRUE,
              !.ea.keys = IF Contains(@, t) THEN @ ELSE Append(@, t),
              !.ea.orig[t] = IF e.on[t] = "native" THEN "native" ELSE "null",
              !.on[t] = "none"],
           t, id)

\* removeEventActions line 321: if (!el._eventActions[eventType]) return;
NothingRecorded(e, key) ==
    IF key = "handlers"
    THEN ~ HasHandlers(e.ea)
    ELSE e.ea.orig[key] \in {"absent", "null"}

\* lines 337-340: delete el._eventActions once the handlers map is empty
DropIfEmpty(e) ==
    IF HasHandlers(e.ea) /\ \A t \in EventTypes : e.ea.handlers[t] = 0
    THEN [e EXCEPT !.ea = NoEventActions]
    ELSE e

removeEventTypeNoRestore(e, key) ==
    IF ~ e.ea.defined \/ NothingRecorded(e, key)
    THEN e
    ELSE IF key = "handlers"
    THEN [e EXCEPT !.ea.keys = Remove(@, "handlers"),
                   !.ea.handlers = [t \in EventTypes |-> 0]]
    ELSE DropIfEmpty(
           [e EXCEPT
              !.listeners[key] =
                  IF HasHandlers(e.ea) /\ e.ea.handlers[key] # 0
                  THEN Remove(@, e.ea.handlers[key]) ELSE @,
              !.ea.handlers[key] = 0,
              !.ea.orig[key] = "absent",
              !.ea.keys = Remove(@, key)])

\* removeEventActions(el, eventType) for a given key.  for..in also passes
\* the key "handlers": el._eventActions.handlers is then a truthy value, it
\* is stored in el.onhandlers (a property nothing reads) and the key is
\* deleted, after which line 338 finds no handlers map.
removeEventType(e, key) ==
    IF ~ e.ea.defined \/ NothingRecorded(e, key)
    THEN e
    ELSE IF key = "handlers"
    THEN [e EXCEPT !.ea.keys = Remove(@, "handlers"),
                   !.ea.handlers = [t \in EventTypes |-> 0]]
    ELSE DropIfEmpty(
           [e EXCEPT
              !.listeners[key] =
                  IF HasHandlers(e.ea) /\ e.ea.handlers[key] # 0
                  THEN Remove(@, e.ea.handlers[key]) ELSE @,
              !.ea.handlers[key] = 0,
              !.on[key] = e.ea.orig[key],
              !.ea.orig[key] = "absent",
              !.ea.keys = Remove(@, key)])

RECURSIVE removeKeys(_, _)
\* lines 315-317: for (const type in el._eventActions) removeEventActions(el, type)
removeKeys(e, keys) ==
    IF keys = <<>> THEN e
    ELSE removeKeys(removeEventType(e, Head(keys)), Tail(keys))

\* removeEventActions(el) with the event type omitted
removeAllEventActions(e) ==
    IF ~ e.ea.defined THEN e ELSE removeKeys(e, e.ea.keys)

(***************************************************************************)
(* The options of a step, as far as they decide the control flow of        *)
(* executeAction.                                                          *)
(***************************************************************************)
\* What evaluating a condition or conditionAction text gives.
CondValues == {"none", "true", "false", "throws"}

\* A condition or conditionAction given as a function (EventActions.execute
\* called with an options object), by what calling it does
FnValues == {"fnTrue", "fnFalse", "fnThrows"}

\* condition, conditionAction, confirm of a direct call
CallGateOptions ==
    [condition : CondValues \cup FnValues,
     conditionAction : CondValues \cup FnValues, confirm : BOOLEAN]

\* condition, conditionAction, confirm
GateOptions ==
    [condition : CondValues, conditionAction : CondValues, confirm : BOOLEAN]

\* The delay option as getElementOptions gives it: absent (the default 0),
\* or parseFloat of the attribute text "0", "abc", "-5", "250"
DelayAttrs == {"absent", "0", "abc", "-5", "250"}

\* line 284: parseFloat(actionOptions.delay) || 0; NaN gives 0
Delay(d) ==
    CASE d = "250" -> 250
      [] d = "-5"  -> -5
      [] OTHER     -> 0

SuspendsOnZero(d) == Delay(d) >= 0

\* line 285: delay > 0 && !isNaN(delay)
Suspends(d) == Delay(d) > 0

\* execute; add/remove/toggle lists that share a class name; contentMethod;
\* scrollTo; delay
BodyOptions ==
    [execute : BOOLEAN, classConflict : BOOLEAN,
     contentMethod : {"innerHTML", "textContent", "other"},
     scrollTo : {"none", "valid", "invalid"}, delay : DelayAttrs]

\* The splash attribute of a step: absent, "", "false" or "0", other text.
SplashAttrs == {"absent", "empty", "falseText", "text"}

\* if (conditionMet), if (!result): JavaScript truthiness of true/false/undefined
Truthy(v) == v = "true"

\* options.splash as a condition: a non-empty string is truthy
SplashTruthy(sa) == sa \in {"falseText", "text"}

clearSplashOrAbsent(sa) == sa \in {"absent", "empty", "falseText"}

\* line 389: clearSplash, computed on the attributes that exist
clearSplash(sa) == sa \in {"empty", "falseText"}

SplashIsFalsy(sa) == sa \in {"absent", "empty"}

\* lines 418, 440: options.splash === null after the defaults are merged in
SplashIsNull(sa) == sa = "absent"

\* executeAction lines 79-149: where the gating part of a step ends.  A
\* function is called outside the try blocks (lines 84, 113); a condition
\* function that returns a truthy value ends the step at line 88; a
\* conditionAction function that returns a truthy value is then handed to
\* eval, which gives it back, and is called once more inside the try.
Gate(g) ==
    IF g.condition \in {"false", "fnFalse"} THEN "condFalse"
    ELSE IF g.condition = "throws" THEN "condThrew"
    ELSE IF g.condition = "fnThrows" THEN "threw"
    ELSE IF g.condition = "fnTrue" THEN "fnTrue"
    ELSE IF g.conditionAction = "fnThrows" THEN "threw"
    ELSE IF g.conditionAction \in {"false", "throws", "fnFalse"} THEN "skipped"
    ELSE IF g.confirm THEN "confirm"
    ELSE "pass"

BodyIgnoresConflict(b) ==
    IF b.contentMethod \notin {"innerHTML", "textContent"} THEN "badMethod"
    ELSE IF b.scrollTo = "invalid" THEN "threw"
    ELSE IF Suspends(b.delay) THEN "delay"
    ELSE "apply"

\* executeAction lines 187-288: where the part between the confirmation and
\* the delay ends.  Line 257 assigns to the const scrollTo, which throws.
Body(b) ==
    IF b.classConflict THEN "conflict"
    ELSE IF b.contentMethod \notin {"innerHTML", "textContent"} THEN "badMethod"
    ELSE IF b.scrollTo = "invalid" THEN "threw"
    ELSE IF Suspends(b.delay) THEN "delay"
    ELSE "apply"

(***************************************************************************)
(* A run of the listener.                                                  *)
(*   pc           "start" dispatched, not yet run; "confirm", "delay",     *)
(*                "ack": executeAction awaits the dialog or the timer;     *)
(*                "ret": executeAction has settled with val and the        *)
(*                handler's await is pending; "done"; "rejected": the      *)
(*                handler's promise rejected                               *)
(*   kind, i      the step executeAction was last called for, and the      *)
(*                loop variable i                                          *)
(*   conditionMet, splashDlg   the handler's locals; splashDlg is "null"   *)
(*                or the overlay it refers to, named by the step that      *)
(*                showed it ("first", "1", "2", ..., "last", "finally")    *)
(* History of the run, read by the properties only:                        *)
(*   outcome, fx  how the current step ended, and what it did, in order:   *)
(*                "confirm" (dialog shown), "execute", "delay" (the timer  *)
(*                started), "effects" (applyClasses, applyContentChanges   *)
(*                and applyScroll called), "ack" (dialog shown)            *)
(*   delay        the delay option of the step, from line 284 until        *)
(*                executeAction returns                                    *)
(*   calls        the steps executeAction was called for, in order         *)
(*   invalid      some step ended at the contentMethod validation          *)
(*   gate         how a first or numbered step ended, when it ended other  *)
(*                than by completing or by being skipped                   *)
(*   afterGate    a numbered or last step was called with gate set         *)
(*   ownGate      some step failed its condition or was cancelled          *)
(*   skipped      a first or numbered step was skipped by conditionAction  *)
(*   started      the kinds of step executeAction was called for           *)
(*   replayed     calls of the recorded native handler                     *)
(*   live         splash overlays shown by the run and not hidden          *)
(*   replaced     the run showed a splash while it held another one        *)
(*   cond, exec, body   of a direct call: the gating options, the execute  *)
(*                option, and where lines 171-288 ended                    *)
(***************************************************************************)
NoCond == [condition |-> "none", conditionAction |-> "none", confirm |-> FALSE]

NewRun(t) ==
    [type |-> t, pc |-> "start", kind |-> "none", i |-> 1,
     conditionMet |-> "true", splashDlg |-> "null", val |-> "none",
     outcome |-> "none", fx |-> <<>>, delay |-> "absent", calls |-> <<>>,
     gate |-> "none", afterGate |-> FALSE, ownGate |-> FALSE,
     invalid |-> FALSE, skipped |-> FALSE, started |-> {}, replayed |-> 0,
     live |-> 0, replaced |-> FALSE, cond |-> NoCond, exec |-> "none", body |-> "none"]

\* executeAction returns v
Settle(run, v, outcome) ==
    [run EXCEPT
       !.pc = "ret", !.val = v, !.outcome = outcome, !.delay = "absent",
       !.invalid = @ \/ outcome = "badMethod",
       !.gate = IF run.kind \in {"first", "numbered"}
                   /\ outcome \notin {"ok", "skipped"}
                THEN outcome ELSE @,
       !.ownGate = @ \/ outcome \in {"condFalse", "cancelled"},
       !.skipped = @ \/ (run.kind \in {"first", "numbered"}
                         /\ outcome = "skipped")]

\* executeAction throws or an awaited dialog rejects outside a try: the
\* handler's await rethrows and the handler ends there
Reject(run) ==
    [run EXCEPT !.pc = "rejected", !.val = "none", !.outcome = "threw",
                !.fx = <<>>, !.delay = "absent"]

\* lines 292-299: the acknowledgment, then return true
Acknowledge(run, ack) ==
    IF ack
    THEN [run EXCEPT !.pc = "ack", !.fx = Append(@, "ack")]
    ELSE Settle(run, "true", "ok")

\* lines 289-291: applyClasses(); applyContentChanges(); applyScroll()
ApplyEffects(run) == [run EXCEPT !.fx = Append(@, "effects")]

\* lines 289-299, for every acknowledge attribute
Effects(run) == {Acknowledge(ApplyEffects(run), ack) : ack \in BOOLEAN}

\* What the body options of a step can amount to: whether execute is
\* present, where the part up to the delay ends, and the delay option when
\* line 284 is reached
BodyResults ==
    {[execute |-> b.execute, ends |-> Body(b),
      delay |-> IF Body(b) \in {"delay", "apply"} THEN b.delay ELSE "absent"] :
        b \in BodyOptions}

\* What the gating options of a step can amount to
GateResults == {Gate(g) : g \in GateOptions}

ConflictReturnsTrue(run) == Settle(run, "true", "conflict")

\* lines 187-198: a class name in two of the add, remove and toggle lists,
\* return false
Conflict(run) == Settle(run, "false", "conflict")

\* lines 152-288 for body options that amount to b
AfterConfirm(run, b) ==
    LET ran == [run EXCEPT !.fx = IF b.execute THEN Append(@, "execute") ELSE @]
        at  == [ran EXCEPT !.delay = b.delay]
    IN  CASE b.ends = "conflict"  -> {Conflict(ran)}
          [] b.ends = "badMethod" -> {Settle(ran, "undefined", "badMethod")}
          [] b.ends = "threw"     -> {Reject(ran)}
          [] b.ends = "delay"     ->
                 {[at EXCEPT !.pc = "delay", !.fx = Append(@, "delay")]}
          [] OTHER                 -> Effects(at)

\* executeAction from line 152 on, for every value of the body options
FromConfirm(run) == UNION {AfterConfirm(run, b) : b \in BodyResults}

SkippedReturnsFalse(run) == Settle(run, "false", "skipped")

\* lines 115, 135-137: conditionAction not met, return true
Skipped(run) == Settle(run, "true", "skipped")

CancelledReturnsTrue(run) == Settle(run, "true", "cancelled")

\* lines 146-148: the confirmation rejected, return false
Cancelled(run) == Settle(run, "false", "cancelled")

\* lines 79-149 for gating options that amount to g
AfterGate(run, g) ==
    CASE g = "condFalse" -> {Settle(run, "false", "condFalse")}
      [] g = "condThrew" -> {Settle(run, "false", "condThrew")}
      [] g = "fnTrue"    -> {Settle(run, "true", "fnTrue")}
      [] g = "threw"     -> {Reject(run)}
      [] g = "skipped"   -> {Skipped(run)}
      [] g = "confirm"   ->
             {[run EXCEPT !.pc = "confirm", !.fx = Append(@, "confirm")]}
      [] OTHER                 -> FromConfirm(run)

\* executeAction(el, options) up to its first await or its return, for
\* every value of the options
executeAction(run) == UNION {AfterGate(run, g) : g \in GateResults}

HideKeepsReference(run) ==
    IF run.splashDlg # "null" THEN [run EXCEPT !.live = @ - 1] ELSE run

\* splashDlg.modal.hide(); splashDlg = null
Hide(run) ==
    IF run.splashDlg # "null"
    THEN [run EXCEPT !.splashDlg = "null", !.live = @ - 1]
    ELSE run

\* The step executeAction was last called for, as the name of its overlay
StepName(run) == IF run.kind = "numbered" THEN ToString(run.i) ELSE run.kind

ShowWithoutBootstrap(run, by) ==
    [Hide(run) EXCEPT !.splashDlg = by, !.live = @ + 1,
                      !.replaced = @ \/ run.splashDlg # "null"]

ShowNoHide(run, by) ==
    IF bootstrap
    THEN [run EXCEPT !.splashDlg = by, !.live = @ + 1,
                     !.replaced = @ \/ run.splashDlg # "null"]
    ELSE run

\* hide the previous splash, then splashDlg = splashDialog(options.splash)
\* for the step `by`; bsCreateModal returns null without Bootstrap
Show(run, by) ==
    IF bootstrap
    THEN [Hide(run) EXCEPT !.splashDlg = by, !.live = @ + 1,
                           !.replaced = @ \/ run.splashDlg # "null"]
    ELSE Hide(run)

conditionMetKept(kind, conditionMet, val) == conditionMet

\* conditionMet = await executeAction(...) for the first and numbered steps;
\* the value is dropped for the last and finally steps (lines 416, 438)
conditionMetAfter(kind, conditionMet, val) ==
    IF kind \in {"first", "numbered"} THEN val ELSE conditionMet

\* The handler after the await of a step, up to the clearing of the splash:
\* lines 373 (first), 391-397 (numbered), 416-423 (last), 438-445
\* (finally); sa is the step's splash
ClearStep(run, sa) ==
    LET cm  == conditionMetAfter(run.kind, run.conditionMet, run.val)
        r0  == [run EXCEPT !.conditionMet = cm, !.val = "none",
                           !.i = IF run.kind = "numbered" THEN @ + 1 ELSE @]
    IN  IF \/ run.kind = "numbered" /\ clearSplash(sa)
           \/ run.kind \in {"last", "finally"} /\ SplashIsNull(sa)
        THEN Hide(r0) ELSE r0

\* The handler after the await of a step: ClearStep, then the splash of the
\* step is shown, lines 375-380 (first), 398-403 (numbered), 424-429 (last),
\* 446-451 (finally)
PostStep(run, sa) ==
    LET cleared == ClearStep(run, sa)
    IN  IF Truthy(cleared.conditionMet) /\ SplashTruthy(sa)
        THEN Show(cleared, StepName(run)) ELSE cleared

NextKindSkipsGaps(run, a) ==
    LET afterLast == IF a.finally THEN "finally" ELSE "replay"
        afterLoop == IF Truthy(run.conditionMet) /\ a.last
                     THEN "last" ELSE afterLast
        loop      == IF Truthy(run.conditionMet)
                        /\ \E j \in a.numbered : j >= run.i
                     THEN "numbered" ELSE afterLoop
    IN  CASE run.kind = "none"    -> IF a.first THEN "first" ELSE loop
          [] run.kind = "last"    -> afterLast
          [] run.kind = "finally" -> "replay"
          [] OTHER                -> loop

NextKindFinallyFirst(run, a) ==
    LET afterLoop == IF Truthy(run.conditionMet) /\ a.last
                     THEN "last" ELSE "replay"
        loop      == IF Truthy(run.conditionMet) /\ run.i \in a.numbered
                     THEN "numbered" ELSE afterLoop
    IN  CASE run.kind = "none"    ->
                 IF a.finally THEN "finally"
                 ELSE IF a.first THEN "first" ELSE loop
          [] run.kind = "finally" -> IF a.first THEN "first" ELSE loop
          [] run.kind = "last"    -> "replay"
          [] OTHER                -> loop

\* Which step the handler calls executeAction for next: lines 370-371,
\* 386-388, 411-414, 435-436.  a is the element's attribute set for the
\* prefix: a step is present when getElementOptions finds an attribute.
NextKind(run, a) ==
    LET afterLast == IF a.finally THEN "finally" ELSE "replay"
        afterLoop == IF Truthy(run.conditionMet) /\ a.last
                     THEN "last" ELSE afterLast
        loop      == IF Truthy(run.conditionMet) /\ run.i \in a.numbered
                     THEN "numbered" ELSE afterLoop
    IN  CASE run.kind = "none"    -> IF a.first THEN "first" ELSE loop
          [] run.kind = "last"    -> afterLast
          [] run.kind = "finally" -> "replay"
          [] OTHER                -> loop

\* the handler calls executeAction for a step of this kind
Enter(run, kind) ==
    [run EXCEPT !.kind = kind, !.outcome = "none", !.fx = <<>>,
                !.started = @ \cup {kind},
                !.calls = Append(@, [kind |-> kind,
                                     i |-> IF kind = "numbered" THEN run.i ELSE 0]),
                !.afterGate = @ \/ (run.gate # "none"
                                     /\ kind \in {"numbered", "last"})]

ReplaysCaptured(run) ==
    Truthy(run.conditionMet) /\ pageHandler[run.type] = "native"

\* lines 457-461: the condition under which the recorded handler is called
ReplaysNative(run) ==
    /\ Truthy(run.conditionMet)
    /\ el.ea.defined
    /\ el.ea.orig[run.type] = "native"

\* lines 455-467: replay of the recorded native handler, which may throw,
\* then the splash is closed
Replay(run, throws) ==
    LET r0 == [run EXCEPT !.outcome = "none", !.fx = <<>>]
    IN  IF ReplaysNative(run)
        THEN IF throws
             THEN [r0 EXCEPT !.pc = "rejected", !.replayed = @ + 1,
                             !.outcome = "nativeThrew"]
             ELSE Hide([r0 EXCEPT !.pc = "done", !.replayed = @ + 1])
        ELSE Hide([r0 EXCEPT !.pc = "done"])

\* The handler from a resumption to its next await
Proceed(run) ==
    LET kind == NextKind(run, attrs[run.type])
    IN  IF kind = "replay"
        THEN {Replay(run, throws) : throws \in BOOLEAN}
        ELSE executeAction(Enter(run, kind))

(***************************************************************************)
(* EventActions.execute(el, options): executeAction called by the page     *)
(* with an options object, in which condition, conditionAction and execute *)
(* may be functions.                                                       *)
(***************************************************************************)
\* The execute option: absent, a text that evaluates or throws, a function
\* that returns or throws
ExecValues == {"none", "ok", "throws", "fnOk", "fnThrows"}

\* lines 152-169: the function is called outside the try (line 155)
Execute(x) ==
    IF x = "none" THEN "none"
    ELSE IF x = "fnThrows" THEN "threw"
    ELSE "ran"

\* lines 152-288 of a direct call whose execute option is x
AfterExecute(run, x) ==
    IF Execute(x) = "threw"
    THEN {[Reject(run) EXCEPT !.exec = x]}
    ELSE UNION {AfterConfirm([run EXCEPT !.exec = x, !.body = b.ends], b) :
                   b \in {c \in BodyResults : c.execute = (Execute(x) = "ran")}}

\* a direct call from line 152 on, for every value of the options
CallFromConfirm(run) == UNION {AfterExecute(run, x) : x \in ExecValues}

\* a direct call up to its first await or its return, for gating options g
CallGate(run, g) ==
    LET called == [run EXCEPT !.cond = g]
    IN  IF Gate(g) = "pass" THEN CallFromConfirm(called)
        ELSE AfterGate(called, Gate(g))

(***************************************************************************)
(* The effects of a step on its target elements.                           *)
(* An attribute text is a sequence of symbols, a symbol being a word or    *)
(* the white space " "; <<>> is the text of an attribute that is absent or *)
(* empty (`actionOptions.x || null` makes the two the same).               *)
(* A target element: its classList as a set, its content (innerHTML or     *)
(* textContent) as a text, scrollTop and scrollLeft as "start", "middle"   *)
(* or "end" of the scrollable range.                                       *)
(***************************************************************************)
RECURSIVE TrimStart(_)
TrimStart(v) ==
    IF v # <<>> /\ Head(v) = " " THEN TrimStart(Tail(v)) ELSE v

RECURSIVE TrimEnd(_)
TrimEnd(v) ==
    IF v # <<>> /\ v[Len(v)] = " " THEN TrimEnd(SubSeq(v, 1, Len(v) - 1)) ELSE v

\* sanitizeValue: value.trim(), and null for what is empty then
sanitizeValue(v) == TrimEnd(TrimStart(v))

Range(list) == {list[k] : k \in 1..Len(list)}

\* lines 177-180: the class names of a class option, split at white space
ClassLists == {<<>>, <<"a">>, <<"b">>, <<"a", "b">>}

\* contentClear as an attribute: absent, data-ca-content-clear (empty),
\* "true", "false"
ClearAttrs == {"null", "", "true", "false"}

\* DEFAULT_OPTIONS_ACTION, as far as the effects go
DefaultOptions ==
    [classAdd |-> <<>>, classRemove |-> <<>>, classToggle |-> <<>>,
     classSet |-> <<>>, scrollTo |-> <<>>, contentMethod |-> <<>>,
     contentSet |-> <<>>, contentAppend |-> <<>>, contentPrepend |-> <<>>,
     contentClear |-> "null"]

ClassConflictAddRemoveOnly(o) ==
    Range(o.classAdd) \cap Range(o.classRemove) # {}

\* lines 188-191: intersectionSR, intersectionST, intersectionRT
ClassConflict(o) ==
    \/ Range(o.classAdd) \cap Range(o.classRemove) # {}
    \/ Range(o.classAdd) \cap Range(o.classToggle) # {}
    \/ Range(o.classRemove) \cap Range(o.classToggle) # {}

\* line 227: sanitizeValue(actionOptions.contentMethod || 'innerHTML')
contentMethod(o) ==
    sanitizeValue(IF o.contentMethod = <<>> THEN <<"innerHTML">>
                  ELSE o.contentMethod)

\* line 228, as Body reads it
MethodKind(o) ==
    IF contentMethod(o) = <<"innerHTML">> THEN "innerHTML"
    ELSE IF contentMethod(o) = <<"textContent">> THEN "textContent"
    ELSE "other"

\* line 254: sanitizeValue(actionOptions.scrollTo || null)
scrollTo(o) == sanitizeValue(o.scrollTo)

\* line 255, as Body reads it
ScrollKind(o) ==
    IF scrollTo(o) = <<>> THEN "none"
    ELSE IF scrollTo(o) \in {<<"top">>, <<"bottom">>, <<"left">>, <<"right">>}
    THEN "valid"
    ELSE "invalid"

\* line 235
contentClear(o) == o.contentClear \in {"true", ""}

\* classList.toggle for each name of the list, in order
RECURSIVE ToggleAll(_, _)
ToggleAll(classes, list) ==
    IF list = <<>> THEN classes
    ELSE ToggleAll(IF Head(list) \in classes THEN classes \ {Head(list)}
                   ELSE classes \cup {Head(list)},
                   Tail(list))

applyClassesSetFirst(classes, o) ==
    (ToggleAll(IF o.classSet # <<>> THEN Range(o.classSet) ELSE classes,
               o.classToggle) \cup Range(o.classAdd))
        \ Range(o.classRemove)

\* applyClasses, lines 200-225, for one target
applyClasses(classes, o) ==
    IF o.classSet # <<>>
    THEN Range(o.classSet)
    ELSE (ToggleAll(classes, o.classToggle) \cup Range(o.classAdd))
             \ Range(o.classRemove)

applyContentChangesSetLast(content, o) ==
    LET cleared   == IF contentClear(o) THEN <<>> ELSE content
        appended  == IF sanitizeValue(o.contentAppend) # <<>>
                     THEN cleared \o sanitizeValue(o.contentAppend) ELSE cleared
        prepended == IF sanitizeValue(o.contentPrepend) # <<>>
                     THEN sanitizeValue(o.contentPrepend) \o appended
                     ELSE appended
    IN  IF sanitizeValue(o.contentSet) # <<>>
        THEN sanitizeValue(o.contentSet) ELSE prepended

\* applyContentChanges, lines 232-252, for one target
applyContentChanges(content, o) ==
    LET cleared   == IF contentClear(o) THEN <<>> ELSE content
        set       == IF sanitizeValue(o.contentSet) # <<>>
                     THEN sanitizeValue(o.contentSet) ELSE cleared
        appended  == IF sanitizeValue(o.contentAppend) # <<>>
                     THEN set \o sanitizeValue(o.contentAppend) ELSE set
    IN  IF sanitizeValue(o.contentPrepend) # <<>>
        THEN sanitizeValue(o.contentPrepend) \o appended
        ELSE appended

\* lines 265-278: the switch, for the target it is run on
ScrollTarget(target, o) ==
    CASE scrollTo(o) = <<"top">>    -> [target EXCEPT !.scrollTop = "start"]
      [] scrollTo(o) = <<"bottom">> -> [target EXCEPT !.scrollTop = "end"]
      [] scrollTo(o) = <<"left">>   -> [target EXCEPT !.scrollLeft = "start"]
      [] scrollTo(o) = <<"right">>  -> [target EXCEPT !.scrollLeft = "end"]
      [] OTHER                      -> target

applyScrollAll(targets, o) ==
    [k \in 1..Len(targets) |-> ScrollTarget(targets[k], o)]

\* applyScroll, lines 259-282: the loop breaks after the first target
applyScroll(targets, o) ==
    [k \in 1..Len(targets) |->
        IF k = 1 THEN ScrollTarget(targets[k], o) ELSE targets[k]]

\* lines 289-291 on the target elements
applyAll(targets, o) ==
    applyScroll([k \in 1..Len(targets) |->
                    [targets[k] EXCEPT
                        !.classes = applyClasses(@, o),
                        !.content = applyContentChanges(@, o)]],
                o)

\* Lines 171-291 of executeAction for options o: where they end, by Body
StepEnds(o) ==
    Body([execute |-> FALSE, classConflict |-> ClassConflict(o),
          contentMethod |-> MethodKind(o), scrollTo |-> ScrollKind(o),
          delay |-> "absent"])

\* What the promise of executeAction settles with
StepResult(o) ==
    CASE StepEnds(o) = "conflict"  -> "false"
      [] StepEnds(o) = "badMethod" -> "undefined"
      [] StepEnds(o) = "threw"     -> "threw"
      [] OTHER                     -> "true"

\* Steps that vary the four class lists
ClassSteps ==
    {[DefaultOptions EXCEPT !.classAdd = a, !.classRemove = r,
                            !.classToggle = t, !.classSet = cs,
                            !.contentSet = c, !.scrollTo = sc] :
        a \in ClassLists, r \in ClassLists, t \in ClassLists,
        cs \in ClassLists, c \in {<<>>, <<"B">>},
        sc \in {<<>>, <<"bottom">>}}

\* Steps that vary the content options
ContentSteps ==
    {[DefaultOptions EXCEPT !.contentClear = cl, !.contentSet = c,
                            !.contentAppend = ap, !.contentPrepend = pp,
                            !.contentMethod = m, !.classAdd = a,
                            !.scrollTo = sc] :
        cl \in ClearAttrs, c \in {<<>>, <<" ">>, <<"B">>, <<" ", "B">>},
        ap \in {<<>>, <<"C">>, <<"C", " ">>}, pp \in {<<>>, <<"D">>},
        m \in {<<>>, <<"innerHTML">>, <<"textContent">>, <<"outerHTML">>},
        a \in {<<>>, <<"a">>}, sc \in {<<>>, <<"bottom">>}}

\* Steps that vary the scroll keyword
ScrollSteps ==
    {[DefaultOptions EXCEPT !.scrollTo = sc, !.contentMethod = m,
                            !.classAdd = a, !.contentSet = c] :
        sc \in {<<>>, <<"top">>, <<"bottom">>, <<"left">>, <<"right">>,
                <<"middle">>, <<" ", "right">>},
        m \in {<<>>, <<"textContent">>, <<"outerHTML">>, <<" ">>},
        a \in {<<>>, <<"a">>}, c \in {<<>>, <<"B">>}}

\* A target element as the page has it before the step
TargetsBefore ==
    [classes : {{}, {"a"}, {"a", "b"}}, content : {<<>>, <<"A">>},
     scrollTop : {"middle"}, scrollLeft : {"middle"}]

\* No call of executeAction is looked at
NoStep == [opts |-> DefaultOptions, before |-> <<>>, targets |-> <<>>,
           result |-> "none"]

(***************************************************************************)
(* The data-class-* family (part_001): one listener per element, which     *)
(* walks the suffixes "", -1, -2, ... in one synchronous loop.             *)
(* The attributes of a suffix: condition ("none", or "false" for a text    *)
(* that evaluates falsy or throws), the class names to add, to remove, to  *)
(* toggle and to set (<<>> when the attribute is absent), whether the      *)
(* target selectors resolve to some element (the element itself when there *)
(* is no selector) and the text of data-class-delay as a sequence of       *)
(* characters (<<>> when absent or empty).                                 *)
(***************************************************************************)
IsDigit(c) == c \in {ToString(d) : d \in 0..9}

Digit(c) == CHOOSE d \in 0..9 : ToString(d) = c

\* String.prototype.trim on a text: the same as sanitizeValue's trim
Trim(text) == TrimEnd(TrimStart(text))

EndsWith(text, suffix) ==
    /\ Len(text) >= Len(suffix)
    /\ SubSeq(text, Len(text) - Len(suffix) + 1, Len(text)) = suffix

\* text.slice(0, -n)
DropLast(text, n) == SubSeq(text, 1, Len(text) - n)

\* The longest prefix of digits of a text
RECURSIVE DigitPrefix(_)
DigitPrefix(text) ==
    IF text # <<>> /\ IsDigit(Head(text))
    THEN <<Head(text)>> \o DigitPrefix(Tail(text))
    ELSE <<>>

RECURSIVE DecimalValue(_)
DecimalValue(digits) ==
    IF digits = <<>> THEN 0
    ELSE 10 * DecimalValue(DropLast(digits, 1)) + Digit(digits[Len(digits)])

\* parseFloat on a text of digits, sign, letters and spaces: leading white
\* space is skipped, a sign and the digits that follow are read, what comes
\* after is ignored; NaN when no digit is read
parseFloat(text) ==
    LET t      == TrimStart(text)
        neg    == t # <<>> /\ Head(t) = "-"
        digits == DigitPrefix(IF neg THEN Tail(t) ELSE t)
    IN  [nan   |-> digits = <<>>,
         value |-> IF neg THEN 0 - DecimalValue(digits)
                   ELSE DecimalValue(digits)]

\* lines 103-126: the delay in milliseconds of a data-class-delay text.
\* endsWith('s') is tested first, so a text that ends with "ms" takes the
\* seconds branch.  An absent attribute (104-106) and an empty one (NaN,
\* 122-125) both give 0.
delayOf(text) ==
    LET t      == Trim(text)
        sec    == EndsWith(t, <<"s">>)
        ms     == ~ sec /\ EndsWith(t, <<"m", "s">>)
        number == parseFloat(IF sec THEN Trim(DropLast(t, 1))
                             ELSE IF ms THEN Trim(DropLast(t, 2)) ELSE t)
        scaled == number.value * (IF sec THEN 1000 ELSE 1)
    IN  IF text = <<>> \/ number.nan \/ scaled < 0 THEN 0 ELSE scaled

\* lines 179-199, for the element itself as the only target: the set list
\* alone, or toggle, then add, then remove
applyClassChange(classes, o) ==
    IF o.classSet # <<>> THEN Range(o.classSet)
    ELSE (ToggleAll(classes, o.classToggle) \cup Range(o.classAdd))
             \ Range(o.classRemove)

\* line 88: the suffix has none of the four class attributes
NoClassAttribute(o) ==
    /\ o.classAdd = <<>> /\ o.classRemove = <<>>
    /\ o.classToggle = <<>> /\ o.classSet = <<>>

SetAlwaysAlone(o) == FALSE

\* line 93: data-class-set together with add, remove or toggle
SetWithOthers(o) ==
    /\ o.classSet # <<>>
    /\ o.classAdd # <<>> \/ o.classRemove # <<>> \/ o.classToggle # <<>>

\* lines 165-168: a name in two of the add, remove and toggle lists
Intersect(o) ==
    \/ Range(o.classAdd) \cap Range(o.classRemove) # {}
    \/ Range(o.classAdd) \cap Range(o.classToggle) # {}
    \/ Range(o.classRemove) \cap Range(o.classToggle) # {}

\* The class change of suffix `index` is made on the DOM
Applied(b, index) ==
    [b EXCEPT !.classes = applyClassChange(@, b.attrs[index + 1]),
              !.applied = Append(@, index)]

\* The loop of lines 54-205 from suffix `index` on.  Past MaxSuffix the
\* element has no attribute, which ends the loop (88-92).
RECURSIVE process(_, _)
process(b, index) ==
    IF index > MaxSuffix THEN b
    ELSE LET o    == b.attrs[index + 1]
             seen == [b EXCEPT !.delays[index + 1] = delayOf(o.delay)]
         IN  IF o.condition = "false" THEN process(b, index + 1)
             ELSE IF NoClassAttribute(o) THEN b
             ELSE IF SetWithOthers(o) THEN process(b, index + 1)
             ELSE IF ~ o.matches THEN seen
             ELSE IF Intersect(o) THEN seen
             ELSE IF delayOf(o.delay) > 0
             THEN process([seen EXCEPT
                              !.timers = Append(@, [suffix |-> index,
                                                    delay |-> delayOf(o.delay)])],
                          index + 1)
             ELSE process(Applied(seen, index), index + 1)

\* The timer that fires next: the one with the shortest delay, all timers
\* of an event being started in the same piece of JavaScript, and the one
\* started first among equal delays
Due(timers) ==
    CHOOSE k \in 1..Len(timers) :
        \A j \in 1..Len(timers) :
            \/ timers[k].delay < timers[j].delay
            \/ timers[k].delay = timers[j].delay /\ k <= j

\* The attributes of one suffix that the order of the class changes
\* depends on
SuffixAttrs ==
    [condition : {"none", "false"},
     classAdd : {<<>>, <<"a">>}, classRemove : {<<>>, <<"a">>},
     classToggle : {<<>>}, classSet : {<<>>}, matches : {TRUE},
     delay : {<<>>, <<"5">>, <<"2", "s">>}]

NoSuffix == [condition |-> "none", classAdd |-> <<>>, classRemove |-> <<>>,
             classToggle |-> <<>>, classSet |-> <<>>, matches |-> TRUE,
             delay |-> <<>>]

\* The attributes of one suffix that decide whether the chain goes on
ChainAttrs ==
    [condition : {"none", "false"},
     classAdd : {<<>>, <<"a">>}, classRemove : {<<>>, <<"a">>},
     classToggle : {<<>>, <<"a">>}, classSet : {<<>>, <<"b">>},
     matches : BOOLEAN, delay : {<<>>}]

\* Elements whose suffixes differ in what the chain depends on; the highest
\* suffix, after which nothing is left to process, has one class to add or
\* no attribute
ChainButtons ==
    {a \in [1..(MaxSuffix + 1) -> ChainAttrs] :
        a[MaxSuffix + 1] \in {NoSuffix, [NoSuffix EXCEPT !.classAdd = <<"a">>]}}

\* Texts of data-class-delay
DelayTexts ==
    {<<>>, <<"0">>, <<"5">>, <<"2", "5">>, <<"5", "m", "s">>,
     <<"5", "0", "0", "m", "s">>, <<"2", "s">>, <<"1", "0", "s">>,
     <<" ", "5", " ", "m", "s", " ">>, <<"5", " ", "s">>, <<" ", "7", " ">>,
     <<"-", "5">>, <<"-", "2", "s">>, <<"x">>, <<"s">>, <<"m", "s">>,
     <<"5", "x">>, <<"5", "m">>}

\* Elements whose suffixes differ in what the order depends on
OrderButtons == [1..(MaxSuffix + 1) -> SuffixAttrs]

\* Elements with one class to add and any delay text on the unsuffixed
\* attributes, and nothing else
DelayButtons ==
    {[k \in 1..(MaxSuffix + 1) |->
         IF k = 1 THEN [NoSuffix EXCEPT !.classAdd = <<"a">>, !.delay = d]
         ELSE NoSuffix] : d \in DelayTexts}

\* An element before its event: no class, nothing pending
NewButton(a) ==
    [attrs |-> a, pc |-> "idle", classes |-> {}, timers |-> <<>>,
     applied |-> <<>>, delays |-> [k \in 1..(MaxSuffix + 1) |-> -1]]

\* No element of the family is looked at
NoButton == NewButton([k \in 1..(MaxSuffix + 1) |-> NoSuffix])

(***************************************************************************)
(* makeScrollTarget (dataScrollTarget.js): the click listener of an        *)
(* element with data-scroll-target.  The data-scroll-to attribute is       *)
(* absent (getAttribute gives null) or has a text, possibly empty; there   *)
(* is no trim here.                                                        *)
(***************************************************************************)
ScrollToAttrs ==
    {[given |-> FALSE, text |-> <<>>]}
    \cup {[given |-> TRUE, text |-> t] :
             t \in {<<>>, <<"top">>, <<"bottom">>, <<"left">>, <<"right">>,
                    <<"TOP">>, <<"middle">>, <<" ", "top">>}}

\* String.prototype.toLowerCase on the words of the texts above
toLowerCase(text) ==
    [k \in 1..Len(text) |-> IF text[k] = "TOP" THEN "top" ELSE text[k]]

\* A scrollable element: the two offsets
ScrollPositions ==
    [scrollTop : {"start", "middle", "end"},
     scrollLeft : {"start", "middle", "end"}]

\* lines 47-60 for one target
scrollElement(target, keyword) ==
    CASE keyword = <<"top">>    -> [target EXCEPT !.scrollTop = "start"]
      [] keyword = <<"bottom">> -> [target EXCEPT !.scrollTop = "end"]
      [] keyword = <<"left">>   -> [target EXCEPT !.scrollLeft = "start"]
      [] keyword = <<"right">>  -> [target EXCEPT !.scrollLeft = "end"]
      [] OTHER                  -> target

\* scrollTarget_handler, lines 20-62, for the data-scroll-to attribute a and
\* the elements the selector gives.  Line 39 calls toLowerCase on what
\* getAttribute returns, which is null for an absent attribute.
scrollTarget_handler(a, targets) ==
    IF targets = <<>> THEN [result |-> "returned", targets |-> targets]
    ELSE IF ~ a.given THEN [result |-> "threw", targets |-> targets]
    ELSE LET lower   == toLowerCase(a.text)
             keyword == IF lower = <<>> THEN <<"top">> ELSE lower
         IN  IF keyword \notin {<<"top">>, <<"bottom">>, <<"left">>, <<"right">>}
             THEN [result |-> "returned", targets |-> targets]
             ELSE [result |-> "returned",
                   targets |-> [k \in 1..Len(targets) |->
                                   scrollElement(targets[k], keyword)]]

(***************************************************************************)
(* Initial states.                                                         *)
(***************************************************************************)
\* The steps an element may have attributes for under one prefix
AttrSets ==
    [first : BOOLEAN, numbered : SUBSET (1..MaxSteps), last : BOOLEAN,
     finally : BOOLEAN]

NoAttrs == [first |-> FALSE, numbered |-> {}, last |-> FALSE, finally |-> FALSE]

\* Elements of the attachment scenarios carry the unsuffixed step only
FirstOnly == [first |-> TRUE, numbered |-> {}, last |-> FALSE, finally |-> FALSE]

NoDispatch == [type |-> "none", inline |-> FALSE, started |-> 0]

\* An element attached for click (addClickActions, or the DOMContentLoaded
\* scan), with or without an inline onclick, and any step attributes
Init ==
    /\ bootstrap \in BOOLEAN
    /\ \E a \in AttrSets : attrs = [t \in EventTypes |-> IF t = "click" THEN a ELSE NoAttrs]
    /\ \E h \in {"none", "native"} :
          pageHandler = [t \in EventTypes |-> IF t = "click" THEN h ELSE "none"]
    /\ el = addEventActions(FreshElement(pageHandler), "click", 1)
    /\ runs = <<>>
    /\ dispatch = NoDispatch
    /\ phase = [t \in EventTypes |-> IF t = "click" THEN "added" ELSE "idle"]
    /\ step = NoStep
    /\ button = NoButton

\* An element nothing is attached to yet, with or without inline handlers
InitAttach ==
    /\ bootstrap \in BOOLEAN
    /\ attrs = [t \in EventTypes |-> FirstOnly]
    /\ pageHandler \in [EventTypes -> {"none", "native"}]
    /\ el = FreshElement(pageHandler)
    /\ runs = <<>>
    /\ dispatch = NoDispatch
    /\ phase = [t \in EventTypes |-> "idle"]
    /\ step = NoStep
    /\ button = NoButton

(***************************************************************************)
(* Actions.                                                                *)
(***************************************************************************)
SetRunSharedLocals(r, run) ==
    runs' = [q \in 1..Len(runs) |->
                IF q = r THEN run
                ELSE [runs[q] EXCEPT !.conditionMet = run.conditionMet,
                                     !.splashDlg = run.splashDlg]]

\* Invocation r of the handler goes on to `run`: conditionMet, splashDlg,
\* options and i are declared inside the handler (lines 364-385), so each
\* invocation has its own
SetRun(r, run) == runs' = [runs EXCEPT ![r] = run]

\* An event of type t is dispatched on el: the inline handler, if any, and
\* every registered listener are invoked; each listener invocation is a run
Trigger(t) ==
    /\ Len(runs) + Len(el.listeners[t]) <= MaxRuns
    /\ runs' = runs \o [k \in 1..Len(el.listeners[t]) |-> NewRun(t)]
    /\ dispatch' = [type |-> t, inline |-> (el.on[t] = "native"),
                    started |-> Len(el.listeners[t])]
    /\ phase' = [phase EXCEPT ![t] = IF @ = "removed" THEN "fired" ELSE @]
    /\ UNCHANGED <<bootstrap, attrs, el, pageHandler, step, button>>

\* The single click followed by Spec
Click == runs = <<>> /\ Trigger("click")

\* handler, lines 359-370 on: from its invocation to the first await
HandlerEntry(r) ==
    /\ runs[r].pc = "start"
    /\ \E run \in Proceed(runs[r]) : SetRun(r, run)
    /\ UNCHANGED <<bootstrap, attrs, el, dispatch, pageHandler, phase, step, button>>

\* handler resumed after await executeAction(...)
HandlerResume(r) ==
    /\ runs[r].pc = "ret"
    /\ \E sa \in SplashAttrs :
          \E run \in Proceed(PostStep(runs[r], sa)) : SetRun(r, run)
    /\ UNCHANGED <<bootstrap, attrs, el, dispatch, pageHandler, phase, step, button>>

\* confirmDialog resolves
ConfirmAccept(r) ==
    /\ runs[r].pc = "confirm"
    /\ \E run \in FromConfirm(runs[r]) : SetRun(r, run)
    /\ UNCHANGED <<bootstrap, attrs, el, dispatch, pageHandler, phase, step, button>>

\* confirmDialog rejects (cancel button, Escape, or window.confirm false):
\* lines 146-148
ConfirmCancel(r) ==
    /\ runs[r].pc = "confirm"
    /\ SetRun(r, Cancelled(runs[r]))
    /\ UNCHANGED <<bootstrap, attrs, el, dispatch, pageHandler, phase, step, button>>

\* the timer of line 287 fires
DelayElapsed(r) ==
    /\ runs[r].pc = "delay"
    /\ \E run \in Effects(runs[r]) : SetRun(r, run)
    /\ UNCHANGED <<bootstrap, attrs, el, dispatch, pageHandler, phase, step, button>>

\* messageDialog resolves (accept button, or window.alert returned)
AckAccept(r) ==
    /\ runs[r].pc = "ack"
    /\ SetRun(r, Settle(runs[r], "true", "ok"))
    /\ UNCHANGED <<bootstrap, attrs, el, dispatch, pageHandler, phase, step, button>>

\* Escape on the Bootstrap modal of messageDialog: bsCreateModal rejects
\* (keyboard is true by default) and line 296 has no try around the await
AckEscape(r) ==
    /\ bootstrap
    /\ runs[r].pc = "ack"
    /\ SetRun(r, [Reject(runs[r]) EXCEPT !.outcome = "ackRejected"])
    /\ UNCHANGED <<bootstrap, attrs, el, dispatch, pageHandler, phase, step, button>>

\* Nothing of the interpreter is on el for event type t: no listener and
\* no record in el._eventActions
Clean(e, t) ==
    /\ e.listeners[t] = <<>>
    /\ e.ea.orig[t] = "absent"
    /\ e.ea.handlers[t] = 0

\* actionHandler(el, prefix) makes a new function at every call: an
\* identity no listener of el for that event type has
NewListener(e, t) ==
    CHOOSE id \in 1..(MaxAttach + 1) :
        /\ ~ Contains(e.listeners[t], id)
        /\ \A k \in 1..(id - 1) : Contains(e.listeners[t], k)

\* EventActions.addClickActions(el) / addScrollActions(el)
AddEventActions(t) ==
    /\ Len(el.listeners[t]) < MaxAttach
    /\ el' = addEventActions(el, t, NewListener(el, t))
    /\ phase' = [phase EXCEPT ![t] = IF Clean(el, t) THEN "added"
                                     ELSE IF @ = "added" THEN "again"
                                     ELSE "other"]
    /\ UNCHANGED <<bootstrap, attrs, runs, dispatch, pageHandler, step, button>>

\* EventActions.removeEventActions(el, t)
RemoveEventActions(t) ==
    /\ el' = removeEventType(el, t)
    /\ phase' = [phase EXCEPT ![t] = IF @ = "added" THEN "removed"
                                     ELSE IF Clean(el', t) THEN "idle"
                                     ELSE "other"]
    /\ UNCHANGED <<bootstrap, attrs, runs, dispatch, pageHandler, step, button>>

\* EventActions.removeEventActions(el)
RemoveAllEventActions ==
    /\ el' = removeAllEventActions(el)
    /\ phase' = [t \in EventTypes |->
                    IF phase[t] = "added" THEN "removedAll"
                    ELSE IF Clean(el', t) THEN "idle"
                    ELSE "other"]
    /\ UNCHANGED <<bootstrap, attrs, runs, dispatch, pageHandler, step, button>>

Next ==
    \/ Click
    \/ \E r \in 1..Len(runs) : HandlerEntry(r)
    \/ \E r \in 1..Len(runs) : HandlerResume(r)
    \/ \E r \in 1..Len(runs) : ConfirmAccept(r)
    \/ \E r \in 1..Len(runs) : ConfirmCancel(r)
    \/ \E r \in 1..Len(runs) : DelayElapsed(r)
    \/ \E r \in 1..Len(runs) : AckAccept(r)
    \/ \E r \in 1..Len(runs) : AckEscape(r)

Spec == Init /\ [][Next]_vars

\* What the event loop and the user owe a run: a handler that can run does
\* (its continuations are microtasks), a timer that was started fires
\* (setTimeout, line 285), and a dialog that is open is answered one way or
\* the other
Fairness ==
    /\ WF_vars(\E r \in 1..Len(runs) : HandlerEntry(r))
    /\ WF_vars(\E r \in 1..Len(runs) : HandlerResume(r))
    /\ WF_vars(\E r \in 1..Len(runs) : DelayElapsed(r))
    /\ WF_vars(\E r \in 1..Len(runs) : ConfirmAccept(r) \/ ConfirmCancel(r))
    /\ WF_vars(\E r \in 1..Len(runs) : AckAccept(r) \/ AckEscape(r))

\* Spec, with every run driven on
SpecLive == Init /\ [][Next]_vars /\ Fairness

\* The calls of the attachment API and the dispatches on el.  A run never
\* writes el, so the runs that the dispatches start are left where they
\* start; Spec follows them.
NextAttach ==
    \/ \E t \in EventTypes : AddEventActions(t)
    \/ \E t \in EventTypes : RemoveEventActions(t)
    \/ RemoveAllEventActions
    \/ \E t \in EventTypes : Trigger(t)

SpecAttach == InitAttach /\ [][NextAttach]_vars

\* executeAction is about to be called with any of the steps' options; its
\* selectors resolve to n elements (none when they match nothing)
InitEffects ==
    /\ bootstrap = FALSE
    /\ attrs = [t \in EventTypes |-> FirstOnly]
    /\ pageHandler = [t \in EventTypes |-> "none"]
    /\ el = FreshElement(pageHandler)
    /\ runs = <<>>
    /\ dispatch = NoDispatch
    /\ phase = [t \in EventTypes |-> "idle"]
    /\ \E o \in ClassSteps \cup ContentSteps \cup ScrollSteps :
       \E n \in 0..MaxTargets :
       \E target \in TargetsBefore :
          step = [opts |-> o, before |-> [k \in 1..n |-> target],
                  targets |-> [k \in 1..n |-> target], result |-> "pending"]
    /\ button = NoButton

\* executeAction from line 171 to its return, no condition, confirmation,
\* delay or acknowledgment being given
ApplyStep ==
    /\ step.result = "pending"
    /\ step' = [step EXCEPT
                  !.result = StepResult(step.opts),
                  !.targets = IF StepEnds(step.opts) = "apply"
                              THEN applyAll(@, step.opts) ELSE @]
    /\ UNCHANGED <<bootstrap, attrs, el, runs, dispatch, pageHandler, phase, button>>

NextEffects == ApplyStep

SpecEffects == InitEffects /\ [][NextEffects]_vars

\* The page is about to call EventActions.execute(el, options) on an
\* element nothing is attached to
InitCall ==
    /\ bootstrap \in BOOLEAN
    /\ attrs = [t \in EventTypes |-> NoAttrs]
    /\ pageHandler = [t \in EventTypes |-> "none"]
    /\ el = FreshElement(pageHandler)
    /\ runs = <<NewRun("click")>>
    /\ dispatch = NoDispatch
    /\ phase = [t \in EventTypes |-> "idle"]
    /\ step = NoStep
    /\ button = NoButton

\* EventActions.execute(el, options) up to its first await or its return
CallExecute(r) ==
    /\ runs[r].pc = "start"
    /\ \E g \in CallGateOptions :
          \E run \in CallGate(Enter(runs[r], "direct"), g) : SetRun(r, run)
    /\ UNCHANGED <<bootstrap, attrs, el, dispatch, pageHandler, phase, step, button>>

\* confirmDialog of a direct call resolves
CallConfirmAccept(r) ==
    /\ runs[r].pc = "confirm"
    /\ \E run \in CallFromConfirm(runs[r]) : SetRun(r, run)
    /\ UNCHANGED <<bootstrap, attrs, el, dispatch, pageHandler, phase, step, button>>

\* A direct call and what resumes it; nothing awaits its result
NextCall ==
    \/ \E r \in 1..Len(runs) : CallExecute(r)
    \/ \E r \in 1..Len(runs) : CallConfirmAccept(r)
    \/ \E r \in 1..Len(runs) : ConfirmCancel(r)
    \/ \E r \in 1..Len(runs) : DelayElapsed(r)
    \/ \E r \in 1..Len(runs) : AckAccept(r)
    \/ \E r \in 1..Len(runs) : AckEscape(r)

SpecCall == InitCall /\ [][NextCall]_vars

\* An element with data-class-* attributes, its listener installed (lines
\* 48-50), before the event
InitClass ==
    /\ bootstrap = FALSE
    /\ attrs = [t \in EventTypes |-> NoAttrs]
    /\ pageHandler = [t \in EventTypes |-> "none"]
    /\ el = FreshElement(pageHandler)
    /\ runs = <<>>
    /\ dispatch = NoDispatch
    /\ phase = [t \in EventTypes |-> "idle"]
    /\ step = NoStep
    /\ \E a \in OrderButtons \cup DelayButtons : button = NewButton(a)

\* The event of the element: the listener of lines 50-206, whole
ClassEvent ==
    /\ button.pc = "idle"
    /\ button' = [process(button, 0) EXCEPT !.pc = "handled"]
    /\ UNCHANGED <<bootstrap, attrs, el, runs, dispatch, pageHandler, phase, step>>

\* A timer of line 201 fires: applyClasses of its suffix
TimerFires ==
    /\ button.timers # <<>>
    /\ LET k == Due(button.timers)
       IN  button' = [Applied(button, button.timers[k].suffix) EXCEPT
                         !.timers = [j \in 1..(Len(@) - 1) |->
                                        IF j < k THEN @[j] ELSE @[j + 1]]]
    /\ UNCHANGED <<bootstrap, attrs, el, runs, dispatch, pageHandler, phase, step>>

NextClass ==
    \/ ClassEvent
    \/ TimerFires

SpecClass == InitClass /\ [][NextClass]_vars

\* The listener of an element of the family whose class changes carry no
\* delay
InitChain ==
    /\ bootstrap = FALSE
    /\ attrs = [t \in EventTypes |-> NoAttrs]
    /\ pageHandler = [t \in EventTypes |-> "none"]
    /\ el = FreshElement(pageHandler)
    /\ runs = <<>>
    /\ dispatch = NoDispatch
    /\ phase = [t \in EventTypes |-> "idle"]
    /\ step = NoStep
    /\ \E a \in ChainButtons : button = NewButton(a)

NextChain == ClassEvent

SpecChain == InitChain /\ [][NextChain]_vars

\* An element prepared by makeScrollTarget, before its click: any
\* data-scroll-to attribute, and the elements its selector gives (the
\* element itself when it has no selector), each scrolled anywhere
InitScroll ==
    /\ bootstrap = FALSE
    /\ attrs = [t \in EventTypes |-> NoAttrs]
    /\ pageHandler = [t \in EventTypes |-> "none"]
    /\ el = FreshElement(pageHandler)
    /\ runs = <<>>
    /\ dispatch = NoDispatch
    /\ phase = [t \in EventTypes |-> "idle"]
    /\ button = NoButton
    /\ \E a \in ScrollToAttrs :
       \E n \in 0..MaxTargets :
       \E targets \in [1..n -> ScrollPositions] :
          step = [opts |-> a, before |-> targets, targets |-> targets,
                  result |-> "pending"]

\* The click: scrollTarget_handler, whole
ScrollClick ==
    /\ step.result = "pending"
    /\ LET done == scrollTarget_handler(step.opts, step.targets)
       IN  step' = [step EXCEPT !.result = done.result,
                                !.targets = done.targets]
    /\ UNCHANGED <<bootstrap, attrs, el, runs, dispatch, pageHandler, phase, button>>

NextScroll == ScrollClick

SpecScroll == InitScroll /\ [][NextScroll]_vars

\* The steps of the element that is clicked more than once: an unsuffixed
\* step and a finally step
RunAttrs ==
    {[first |-> TRUE, numbered |-> {}, last |-> FALSE, finally |-> TRUE]}

\* An element attached for click, without inline handler, on a page with
\* Bootstrap
InitRuns ==
    /\ bootstrap = TRUE
    /\ \E a \in RunAttrs :
          attrs = [t \in EventTypes |-> IF t = "click" THEN a ELSE NoAttrs]
    /\ pageHandler = [t \in EventTypes |-> "none"]
    /\ el = addEventActions(FreshElement(pageHandler), "click", 1)
    /\ runs = <<>>
    /\ dispatch = NoDispatch
    /\ phase = [t \in EventTypes |-> IF t = "click" THEN "added" ELSE "idle"]
    /\ step = NoStep
    /\ button = NoButton

\* The element is clicked, the first time or again: an event is dispatched
\* only between two pieces of JavaScript, that is when every run started so
\* far is suspended in a dialog or a delay, or has ended
ClickAgain ==
    /\ \A r \in 1..Len(runs) :
          runs[r].pc \in {"confirm", "delay", "ack", "done", "rejected"}
    /\ Trigger("click")

NextRuns ==
    \/ ClickAgain
    \/ \E r \in 1..Len(runs) : HandlerEntry(r)
    \/ \E r \in 1..Len(runs) : HandlerResume(r)
    \/ \E r \in 1..Len(runs) : ConfirmAccept(r)
    \/ \E r \in 1..Len(runs) : ConfirmCancel(r)
    \/ \E r \in 1..Len(runs) : DelayElapsed(r)
    \/ \E r \in 1..Len(runs) : AckAccept(r)
    \/ \E r \in 1..Len(runs) : AckEscape(r)

SpecRuns == InitRuns /\ [][NextRuns]_vars

(***************************************************************************)
(* The splash bookkeeping of the handler, followed step by step: one click *)
(* on an element with a first, a numbered, a last and a finally step, and  *)
(* for each resumption of the handler a log of what it did to the overlay. *)
(***************************************************************************)
SplashRunAttrs ==
    {[first |-> TRUE, numbered |-> {1, 2}, last |-> TRUE, finally |-> TRUE]}

\* The names of the overlays a run can create, one per step
Handles == {"first", "last", "finally"} \cup {ToString(k) : k \in 1..MaxSteps}

\* Nothing logged yet.  kind and sa are the step the handler resumed from and
\* its splash attribute, before the overlay splashDlg referred to when the
\* handler resumed, post and left the reference and the number of overlays
\* shown once the step's splash handling is over (lines 381, 404, 430, 452),
\* hides the number of modal.hide() calls received by each overlay so far
NoSplashLog ==
    [kind |-> "none", sa |-> "absent", before |-> "null", post |-> "null",
     left |-> 0, hides |-> [h \in Handles |-> 0]]

\* n calls of modal.hide() on the overlay h
Count(hides, h, n) ==
    IF h \in Handles THEN [hides EXCEPT ![h] = @ + n] ELSE hides

\* The log after the handler went from `run` (resumed at line 373, 391, 416
\* or 438) through `cleared` (ClearStep) and `post` (PostStep) to `next`
\* (Proceed).  Each modal.hide() takes one overlay off the page, so the
\* calls an overlay received are counted by the drop of the number of
\* overlays shown: lines 393-396, 419-422, 441-444 hide the overlay the
\* handler resumed with, lines 399-401, 425-427, 447-449 the one left by the
\* clearing, lines 465-467 the one left by the step.
Logged(log, run, sa, cleared, post, next) ==
    LET shown == IF post.splashDlg # cleared.splashDlg /\ post.splashDlg # "null"
                 THEN 1 ELSE 0
        h1 == Count(log.hides, run.splashDlg, run.live - cleared.live)
        h2 == Count(h1, cleared.splashDlg, cleared.live + shown - post.live)
        h3 == Count(h2, post.splashDlg, post.live - next.live)
    IN  [kind |-> run.kind, sa |-> sa, before |-> run.splashDlg,
         post |-> post.splashDlg, left |-> post.live, hides |-> h3]

InitSplash ==
    /\ bootstrap = TRUE
    /\ \E a \in SplashRunAttrs :
          attrs = [t \in EventTypes |-> IF t = "click" THEN a ELSE NoAttrs]
    /\ pageHandler = [t \in EventTypes |-> "none"]
    /\ el = addEventActions(FreshElement(pageHandler), "click", 1)
    /\ runs = <<>>
    /\ dispatch = NoDispatch
    /\ phase = [t \in EventTypes |-> IF t = "click" THEN "added" ELSE "idle"]
    /\ step = NoSplashLog
    /\ button = NoButton

\* handler resumed after await executeAction(...), as HandlerResume, and
\* logged
SplashResume(r) ==
    /\ runs[r].pc = "ret"
    /\ \E sa \in SplashAttrs :
          LET cleared == ClearStep(runs[r], sa)
              post    == PostStep(runs[r], sa)
          IN  \E run \in Proceed(post) :
                 /\ SetRun(r, run)
                 /\ step' = Logged(step, runs[r], sa, cleared, post, run)
    /\ UNCHANGED <<bootstrap, attrs, el, dispatch, pageHandler, phase, button>>

NextSplash ==
    \/ Click
    \/ \E r \in 1..Len(runs) : HandlerEntry(r)
    \/ \E r \in 1..Len(runs) : SplashResume(r)
    \/ \E r \in 1..Len(runs) : ConfirmAccept(r)
    \/ \E r \in 1..Len(runs) : ConfirmCancel(r)
    \/ \E r \in 1..Len(runs) : DelayElapsed(r)
    \/ \E r \in 1..Len(runs) : AckAccept(r)
    \/ \E r \in 1..Len(runs) : AckEscape(r)

SpecSplash == InitSplash /\ [][NextSplash]_vars

(***************************************************************************)
(* Detaching under a run: one click on an attached element, and            *)
(* removeEventActions(el, "click") called by the page while the run is     *)
(* suspended in a dialog or a delay.                                       *)
(***************************************************************************)
DetachAttrs ==
    {[first |-> TRUE, numbered |-> {1}, last |-> TRUE, finally |-> TRUE]}

InitDetach ==
    /\ bootstrap \in BOOLEAN
    /\ \E a \in DetachAttrs :
          attrs = [t \in EventTypes |-> IF t = "click" THEN a ELSE NoAttrs]
    /\ \E h \in {"none", "native"} :
          pageHandler = [t \in EventTypes |-> IF t = "click" THEN h ELSE "none"]
    /\ el = addEventActions(FreshElement(pageHandler), "click", 1)
    /\ runs = <<>>
    /\ dispatch = NoDispatch
    /\ phase = [t \in EventTypes |-> IF t = "click" THEN "added" ELSE "idle"]
    /\ step = NoStep
    /\ button = NoButton

\* The page calls removeEventActions(el, "click"), once, between two pieces
\* of the run: while executeAction awaits a dialog or the timer
DetachSuspended ==
    /\ phase["click"] = "added"
    /\ \E r \in 1..Len(runs) : runs[r].pc \in {"confirm", "delay", "ack"}
    /\ RemoveEventActions("click")

NextDetach ==
    \/ Click
    \/ DetachSuspended
    \/ \E r \in 1..Len(runs) : HandlerEntry(r)
    \/ \E r \in 1..Len(runs) : HandlerResume(r)
    \/ \E r \in 1..Len(runs) : ConfirmAccept(r)
    \/ \E r \in 1..Len(runs) : ConfirmCancel(r)
    \/ \E r \in 1..Len(runs) : DelayElapsed(r)
    \/ \E r \in 1..Len(runs) : AckAccept(r)
    \/ \E r \in 1..Len(runs) : AckEscape(r)

SpecDetach == InitDetach /\ [][NextDetach]_vars

(***************************************************************************)
(* Properties of a run (Spec).                                             *)
(***************************************************************************)
Ended(run) == run.pc \in {"done", "rejected"}

\* The recorded native handler of the run's event type
Recorded(run) == el.ea.defined /\ el.ea.orig[run.type] = "native"

\* Once a first or numbered step has ended the way `how`, no numbered or
\* last step is called, the native handler is not replayed, and a run that
\* has ended on an element with a finally step has called that step
GatedOff(run, how) ==
    run.gate = how =>
        /\ ~ run.afterGate
        /\ run.replayed = 0
        /\ (Ended(run) /\ attrs[run.type].finally => "finally" \in run.started)

\* C1: when the condition of the first step or of a numbered step evaluates
\* false, no later numbered step and no last step is executed and the native
\* handler is not replayed, while the finally step, if present, is executed.
C1_ConditionGatesOff == \A r \in 1..Len(runs) : GatedOff(runs[r], "condFalse")

\* A run gated off by a false condition has ended after its finally step, on
\* an element that also has every numbered step, a last step and a recorded
\* native handler
C1_Witness ==
    \E r \in 1..Len(runs) :
        /\ runs[r].gate = "condFalse"
        /\ runs[r].pc = "done"
        /\ "finally" \in runs[r].started
        /\ attrs[runs[r].type].numbered = 1..MaxSteps
        /\ attrs[runs[r].type].last
        /\ Recorded(runs[r])

\* C2: when the user cancels the confirmation of the first or of a numbered
\* step, executeAction returns false having done nothing of the step but
\* show the dialog (no execute, no class, content or scroll effect, no
\* acknowledgment); no later numbered step and no last step runs, the native
\* handler is not replayed, and the finally step, if present, still runs.
C2_CancelGatesOff ==
    \A r \in 1..Len(runs) :
        /\ runs[r].outcome = "cancelled" =>
              runs[r].val = "false" /\ runs[r].fx = <<"confirm">>
        /\ GatedOff(runs[r], "cancelled")

\* The first step ran, step 1 was cancelled, the last step was not called
\* although present, and the run ended after the finally step
C2_Witness ==
    \E r \in 1..Len(runs) :
        /\ runs[r].gate = "cancelled"
        /\ runs[r].pc = "done"
        /\ runs[r].started = {"first", "numbered", "finally"}
        /\ runs[r].i = 2
        /\ attrs[runs[r].type].last
        /\ Recorded(runs[r])

\* What the handler does on resuming after a step that conditionAction
\* skipped: conditionMet is true after a first or numbered step and
\* untouched after last and finally, and the next present step in order is
\* called (what that step then does is its own matter); when none is left
\* the native handler is replayed iff conditionMet
C3_Continues(run, next) ==
    LET a     == attrs[run.type]
        inSeq == run.kind \in {"first", "numbered"}
        idx   == IF run.kind = "numbered" THEN run.i + 1 ELSE run.i
        cm    == IF inSeq THEN "true" ELSE run.conditionMet
    IN  /\ next.conditionMet = cm
        /\ IF inSeq /\ idx \in a.numbered
           THEN next.kind = "numbered" /\ next.i = idx
           ELSE IF inSeq /\ a.last
           THEN next.kind = "last"
           ELSE IF run.kind # "finally" /\ a.finally
           THEN next.kind = "finally"
           ELSE /\ Ended(next)
                /\ next.replayed = IF cm = "true" /\ Recorded(run) THEN 1 ELSE 0

\* C3: a step whose conditionAction is false or throws, its condition
\* passing, does nothing (no confirmation, execute, class, content, scroll
\* or acknowledgment) and returns true; the handler then goes on with the
\* next present step, and neither the last step nor the replay of the native
\* handler is suppressed.
C3_SkipContinues ==
    /\ [](\A r \in 1..Len(runs) :
             runs[r].outcome = "skipped" =>
                 runs[r].pc = "ret" /\ runs[r].val = "true" /\ runs[r].fx = <<>>)
    /\ [][\A r \in 1..Len(runs) :
             (runs[r].outcome = "skipped" /\ runs'[r] # runs[r]) =>
                 C3_Continues(runs[r], runs'[r])]_vars

\* A run in which a step was skipped went on to the last step and replayed
\* the native handler
C3_Witness ==
    \E r \in 1..Len(runs) :
        /\ runs[r].skipped
        /\ runs[r].pc = "done"
        /\ "last" \in runs[r].started
        /\ runs[r].replayed = 1

\* C4: every run on an element that carries a finally step executes that
\* step, whatever happened in the earlier steps.
C4_FinallyAlways ==
    \A r \in 1..Len(runs) :
        (Ended(runs[r]) /\ attrs[runs[r].type].finally) =>
            "finally" \in runs[r].started

\* C5: when no step of a run gates the sequence off, the native handler that
\* was on the element before attachment is invoked exactly once, after the
\* finally step, and never before the steps have finished.
C5_NativeReplayedOnce ==
    \A r \in 1..Len(runs) :
        /\ runs[r].replayed > 0 => Ended(runs[r])
        /\ (/\ Ended(runs[r])
            /\ runs[r].gate = "none"
            /\ ~ runs[r].ownGate
            /\ Recorded(runs[r]))
           => runs[r].replayed = 1

\* C6: when any executed step of a run, the last and finally steps
\* included, fails its own condition or has its confirmation cancelled, the
\* native handler is not invoked in that run.
C6_OwnGateNoNative ==
    \A r \in 1..Len(runs) : runs[r].ownGate => runs[r].replayed = 0

(***************************************************************************)
(* Properties of the attachment bookkeeping (SpecAttach).                  *)
(***************************************************************************)
\* C7: a second addEventActions for the same element and event type changes
\* nothing, whether or not the element had a native handler: one listener
\* stays installed, the recorded original handler is the page's, and a
\* trigger starts one run.
C7_SecondAttachNoOp ==
    \A t \in EventTypes :
        phase[t] = "again" =>
            /\ Len(el.listeners[t]) = 1
            /\ el.ea.orig[t] = IF pageHandler[t] = "native" THEN "native" ELSE "null"
            /\ (dispatch.type = t => dispatch.started <= 1)

\* C8: on an element that had a native handler h for the event type and
\* nothing of the interpreter, addEventActions followed by
\* removeEventActions for that type leaves h as el.on<type>, no listener and
\* no record; a trigger after that invokes h and starts no run.
C8_DetachRestores ==
    \A t \in EventTypes :
        (pageHandler[t] = "native" /\ phase[t] \in {"removed", "fired"}) =>
            /\ el.on[t] = "native"
            /\ el.listeners[t] = <<>>
            /\ el.ea.orig[t] = "absent"
            /\ (phase[t] = "fired" /\ dispatch.type = t) =>
                   (dispatch.inline /\ dispatch.started = 0)

\* Attached, detached, then triggered: only the native handler was invoked
C8_Witness ==
    \E t \in EventTypes :
        /\ pageHandler[t] = "native"
        /\ phase[t] = "fired"
        /\ dispatch = [type |-> t, inline |-> TRUE, started |-> 0]

\* C9: removeEventActions(el, type) on an element attached for that type,
\* with or without a native handler before attachment, removes the listener
\* and the bookkeeping of the type, so that a later trigger starts no run.
C9_DetachDrops ==
    \A t \in EventTypes :
        phase[t] \in {"removed", "fired"} =>
            /\ el.listeners[t] = <<>>
            /\ el.ea.orig[t] = "absent"
            /\ el.ea.handlers[t] = 0
            /\ (phase[t] = "fired" /\ dispatch.type = t) => dispatch.started = 0

\* C10: removeEventActions(el) on an element attached for several event
\* types, each with a native handler before attachment, leaves no listener
\* for any type, every native handler restored and no el._eventActions.
C10_DetachAll ==
    (\A t \in EventTypes : phase[t] = "removedAll" /\ pageHandler[t] = "native") =>
        /\ \A t \in EventTypes : el.listeners[t] = <<>> /\ el.on[t] = "native"
        /\ ~ el.ea.defined

(***************************************************************************)
(* Order of the steps of a run, and of the parts of a step (Spec).         *)
(***************************************************************************)
\* The largest N with steps 1..N all present
Prefix(numbered) ==
    CHOOSE n \in 0..MaxSteps :
        (\A j \in 1..n : j \in numbered) /\ (n + 1) \notin numbered

NumberedCalls(run) == SelectSeq(run.calls, LAMBDA c : c.kind = "numbered")

\* C11: the numbered steps of a run are a contiguous prefix 1..N of the
\* indices that have attributes: they are called as 1, 2, ... in order,
\* never past the first index without attributes, all of them when no step
\* gates the run off, and the run starts at step 1 when the element has no
\* unsuffixed step.
C11_ContiguousPrefix ==
    \A r \in 1..Len(runs) :
        LET run == runs[r]
            a   == attrs[run.type]
            n   == Prefix(a.numbered)
            nc  == NumberedCalls(run)
        IN  /\ \A k \in 1..Len(nc) : nc[k].i = k
            /\ Len(nc) <= n
            /\ (run.calls # <<>> /\ ~ a.first /\ n >= 1) =>
                   Head(run.calls) = [kind |-> "numbered", i |-> 1]
            /\ (run.pc = "done" /\ Truthy(run.conditionMet)) => Len(nc) = n

\* An element without unsuffixed step whose numbered attributes have a gap:
\* the run is over, ungated, and went on to the last step
C11_Witness ==
    \E r \in 1..Len(runs) :
        LET a == attrs[runs[r].type]
        IN  /\ ~ a.first
            /\ Prefix(a.numbered) >= 1
            /\ a.numbered # 1..Prefix(a.numbered)
            /\ runs[r].pc = "done"
            /\ Truthy(runs[r].conditionMet)
            /\ "last" \in runs[r].started
            /\ Len(NumberedCalls(runs[r])) = Prefix(a.numbered)

\* Position of a step in the sequence first, 1, 2, ..., last, finally
Rank(c) ==
    CASE c.kind = "first"    -> 0
      [] c.kind = "numbered" -> c.i
      [] c.kind = "last"     -> MaxSteps + 1
      [] c.kind = "finally"  -> MaxSteps + 2

\* C12: within a run the steps are called in the order first, 1, 2, ...,
\* last, finally, and executeAction is called for a step only when the run
\* has just been invoked or the previous call has returned, that is never
\* while a confirmation, a delay or an acknowledgment of the previous step
\* is pending.
C12_StrictSequence ==
    /\ [](\A r \in 1..Len(runs) :
             \A j, k \in 1..Len(runs[r].calls) :
                 j < k => Rank(runs[r].calls[j]) < Rank(runs[r].calls[k]))
    /\ [][\A r \in 1..Len(runs) :
             runs'[r].calls # runs[r].calls =>
                 /\ runs[r].pc \in {"start", "ret"}
                 /\ Len(runs'[r].calls) = Len(runs[r].calls) + 1]_vars

\* Every step of the element has been called, and the finally step waits
\* for its acknowledgment after its delay
C12_Witness ==
    \E r \in 1..Len(runs) :
        /\ Len(runs[r].calls) = MaxSteps + 3
        /\ runs[r].kind = "finally"
        /\ runs[r].pc = "ack"
        /\ Contains(runs[r].fx, "delay")

\* Position of a part of a step in the order of executeAction
Part(e) ==
    CASE e = "confirm" -> 1
      [] e = "execute" -> 2
      [] e = "delay"   -> 3
      [] e = "effects" -> 4
      [] e = "ack"     -> 5

\* C13: within a step the order is confirmation, execute, delay, class /
\* content / scroll effects, acknowledgment; a step whose condition failed,
\* that was skipped by conditionAction or whose confirmation was cancelled
\* has no delay; a delay option of 0 or of a text that is not a number
\* suspends nothing.
C13_OrderWithinStep ==
    \A r \in 1..Len(runs) :
        LET run == runs[r]
        IN  /\ \A j, k \in 1..Len(run.fx) :
                   j < k => Part(run.fx[j]) < Part(run.fx[k])
            /\ run.outcome \in {"condFalse", "condThrew", "skipped", "cancelled"}
                   => ~ Contains(run.fx, "delay")
            /\ run.pc = "delay" => run.delay = "250"
            /\ run.delay \in {"0", "abc"} => ~ Contains(run.fx, "delay")

\* A step that went through all five parts
C13_Witness ==
    \E r \in 1..Len(runs) :
        /\ runs[r].fx = <<"confirm", "execute", "delay", "effects", "ack">>
        /\ runs[r].pc = "ack"

\* C20: a step whose contentMethod is neither innerHTML nor textContent
\* applies no class, content or scroll effect and returns no success: no
\* later numbered or last step is called, the native handler is not replayed
\* in that run, and the finally step is still called.
C20_InvalidMethodGates ==
    \A r \in 1..Len(runs) :
        /\ runs[r].outcome = "badMethod" =>
               runs[r].val = "undefined" /\ ~ Contains(runs[r].fx, "effects")
        /\ GatedOff(runs[r], "badMethod")
        /\ runs[r].invalid => runs[r].replayed = 0
        /\ (runs[r].invalid /\ Ended(runs[r]) /\ attrs[runs[r].type].finally)
               => "finally" \in runs[r].started

\* C36: a class name in two of the add, remove and toggle lists of the first
\* or of a numbered step gates the sequence off like a failed condition.
\* executeAction returns false once the confirmation and the execute option
\* are through and before any delay, effect or acknowledgment; no later
\* numbered step and no last step is called, the native handler is not
\* replayed, and the finally step, if present, is still called.
C36_ConflictGatesOff ==
    \A r \in 1..Len(runs) :
        /\ runs[r].outcome = "conflict" =>
               /\ runs[r].val = "false"
               /\ \A k \in 1..Len(runs[r].fx) :
                      runs[r].fx[k] \in {"confirm", "execute"}
        /\ GatedOff(runs[r], "conflict")

\* A run gated off by a class conflict has ended after its finally step, on
\* an element that also has every numbered step, a last step and a recorded
\* native handler
C36_Witness ==
    \E r \in 1..Len(runs) :
        /\ runs[r].gate = "conflict"
        /\ runs[r].pc = "done"
        /\ runs[r].replayed = 0
        /\ "finally" \in runs[r].started
        /\ "last" \notin runs[r].started
        /\ attrs[runs[r].type].numbered = 1..MaxSteps
        /\ attrs[runs[r].type].last
        /\ Recorded(runs[r])

(***************************************************************************)
(* Properties of the effects of a step (SpecEffects).                      *)
(***************************************************************************)
\* executeAction has settled
Settled == step.result \notin {"none", "pending"}

\* Some class name is in two of the add, remove and toggle lists
InTwoLists(o) ==
    \E c \in Range(o.classAdd) \cup Range(o.classRemove) \cup Range(o.classToggle) :
        (IF c \in Range(o.classAdd) THEN 1 ELSE 0)
        + (IF c \in Range(o.classRemove) THEN 1 ELSE 0)
        + (IF c \in Range(o.classToggle) THEN 1 ELSE 0) >= 2

\* contentMethod and scrollTo of the step are valid (or not given)
ValidAccessors(o) == MethodKind(o) # "other" /\ ScrollKind(o) # "invalid"

\* C14: a step in which a class name appears in two of the add, remove and
\* toggle lists changes the class list of no target.
C14_ConflictNoClassMutation ==
    (Settled /\ InTwoLists(step.opts)) =>
        \A k \in 1..Len(step.targets) :
            step.targets[k].classes = step.before[k].classes

\* A step with a name in the add and the toggle list has settled on two
\* targets that carry a class
C14_Witness ==
    /\ Settled
    /\ Range(step.opts.classAdd) \cap Range(step.opts.classToggle) # {}
    /\ step.opts.classRemove = <<>>
    /\ Len(step.targets) = MaxTargets
    /\ step.before[1].classes = {"a"}

C16_ClassSetWins ==
    (Settled /\ step.opts.classSet # <<>> /\ ValidAccessors(step.opts)) =>
        \A k \in 1..Len(step.targets) :
            step.targets[k].classes = Range(step.opts.classSet)

\* C16, amended: when classSet is non-empty and the step completes
\* (executeAction returns true), every target ends with exactly the classes
\* of classSet, whatever the add, remove and toggle lists; when those lists
\* share a class name executeAction returns false, and the classes of a
\* target change in no step that does not complete.
C16_ClassSetWinsUnlessConflict ==
    (Settled /\ step.opts.classSet # <<>>) =>
        /\ InTwoLists(step.opts) => step.result = "false"
        /\ \A k \in 1..Len(step.targets) :
               step.targets[k].classes =
                   IF step.result = "true" THEN Range(step.opts.classSet)
                   ELSE step.before[k].classes

\* classSet together with an add and a toggle list that share no name, on
\* targets that carry other classes
C16_Witness ==
    /\ step.result = "true"
    /\ step.opts.classSet = <<"b">>
    /\ step.opts.classAdd = <<"a">>
    /\ step.opts.classToggle = <<"b">>
    /\ Len(step.targets) = MaxTargets
    /\ step.before[1].classes = {"a", "b"}
    /\ step.targets[1].classes = {"b"}

\* C17: content is changed in the order clear, set, append, prepend: the
\* content of every target ends as contentPrepend, then contentSet (or,
\* without it, nothing after a clear and the initial content otherwise),
\* then contentAppend, each being the option as executeAction holds it
\* (lines 232-234); with all four given that is D followed by B followed by
\* C for any initial content.
C17_ContentOrder ==
    step.result = "true" =>
        LET o == step.opts
            B == sanitizeValue(o.contentSet)
            C == sanitizeValue(o.contentAppend)
            D == sanitizeValue(o.contentPrepend)
        IN  \A k \in 1..Len(step.targets) :
                step.targets[k].content =
                    D \o (IF B # <<>> THEN B
                          ELSE IF o.contentClear \in {"", "true"} THEN <<>>
                          ELSE step.before[k].content) \o C

\* Clear, set, append and prepend all given on targets with content
C17_Witness ==
    /\ step.result = "true"
    /\ step.opts.contentClear = ""
    /\ Len(step.targets) = MaxTargets
    /\ step.before[1].content = <<"A">>
    /\ step.targets[1].content = <<"D", "B", "C">>

\* C18: the scroll effect of a step changes the scroll offsets of the first
\* target only, while its class and content effects reach every target.
C18_ScrollFirstOnly ==
    (step.result = "true" /\ ScrollKind(step.opts) = "valid") =>
        LET o == step.opts
        IN  /\ \A k \in 2..Len(step.targets) :
                   /\ step.targets[k].scrollTop = step.before[k].scrollTop
                   /\ step.targets[k].scrollLeft = step.before[k].scrollLeft
            /\ Len(step.targets) >= 1 =>
                  /\ scrollTo(o) = <<"top">> => step.targets[1].scrollTop = "start"
                  /\ scrollTo(o) = <<"bottom">> => step.targets[1].scrollTop = "end"
                  /\ scrollTo(o) = <<"left">> => step.targets[1].scrollLeft = "start"
                  /\ scrollTo(o) = <<"right">> => step.targets[1].scrollLeft = "end"
            /\ \A k \in 1..Len(step.targets) :
                   /\ o.classSet = <<>> =>
                          Range(o.classAdd) \subseteq step.targets[k].classes
                   /\ (o.contentSet = <<"B">> /\ o.contentAppend = <<>>
                          /\ o.contentPrepend = <<>>) =>
                          step.targets[k].content = <<"B">>

\* scrollTo bottom with a class to add and a content to set, on two targets
C18_Witness ==
    /\ step.result = "true"
    /\ step.opts.scrollTo = <<"bottom">>
    /\ step.opts.classAdd = <<"a">>
    /\ step.opts.contentSet = <<"B">>
    /\ Len(step.targets) = MaxTargets
    /\ step.before[1].classes = {}
    /\ step.targets[1].scrollTop = "end"
    /\ step.targets[MaxTargets].scrollTop = "middle"

\* C19: a step whose scrollTo is not top, bottom, left or right scrolls
\* nothing and is otherwise a normal step: executeAction does not throw, the
\* class and content effects are applied and the step returns true.
C19_InvalidScrollIgnored ==
    (Settled /\ ScrollKind(step.opts) = "invalid"
        /\ ~ InTwoLists(step.opts) /\ MethodKind(step.opts) # "other") =>
        /\ step.result = "true"
        /\ step.targets =
               [k \in 1..Len(step.before) |->
                   [step.before[k] EXCEPT
                       !.classes = applyClasses(@, step.opts),
                       !.content = applyContentChanges(@, step.opts)]]

(***************************************************************************)
(* Exceptions of the page's code in a direct call (SpecCall).              *)
(***************************************************************************)
\* C21: an exception thrown while the condition or the conditionAction of a
\* step is evaluated, given as text or as a function, does not leave
\* executeAction: with a throwing condition executeAction returns false,
\* and with a throwing conditionAction (the condition passing) the step is
\* skipped and executeAction returns true.
C21_ConditionThrowsContained ==
    \A r \in 1..Len(runs) :
        LET run == runs[r]
        IN  /\ run.cond.condition \in {"throws", "fnThrows"} =>
                   run.pc = "ret" /\ run.val = "false" /\ run.fx = <<>>
            /\ (/\ run.cond.condition \in {"none", "true"}
                /\ run.cond.conditionAction \in {"throws", "fnThrows"}) =>
                   /\ run.pc = "ret" /\ run.val = "true"
                   /\ run.outcome = "skipped" /\ run.fx = <<>>

\* C22: an exception thrown by the execute option, given as text or as a
\* function, is caught: executeAction goes on to its class, content and
\* scroll part, and when that part is well formed the effects are applied
\* and the acknowledgment or the return follows.
C22_ExecuteThrowsContained ==
    \A r \in 1..Len(runs) :
        LET run == runs[r]
        IN  run.exec \in {"throws", "fnThrows"} =>
                /\ run.body # "none"
                /\ (run.body = "apply" /\ run.pc \in {"ack", "ret"}) =>
                       Contains(run.fx, "effects")
                /\ (run.body = "delay" /\ run.pc \in {"ack", "ret"}) =>
                       Contains(run.fx, "effects")

\* C35: a condition given as a function that returns a truthy value lets the
\* step through like a text that evaluates truthy: executeAction goes on to
\* the conditionAction, and when that passes, to the confirmation if one is
\* asked for, and otherwise to the execute option and the part after it.
C35_FunctionConditionPasses ==
    \A r \in 1..Len(runs) :
        LET run == runs[r]
            passes == run.cond.conditionAction \in {"none", "true", "fnTrue"}
        IN  (run.cond.condition = "fnTrue" /\ run.pc # "start") =>
                /\ run.cond.conditionAction \in {"false", "throws", "fnFalse"} =>
                       run.outcome = "skipped"
                /\ run.cond.conditionAction = "fnThrows" => run.pc = "rejected"
                /\ (passes /\ run.cond.confirm) =>
                       \/ run.pc \in {"confirm", "rejected"}
                       \/ Contains(run.fx, "confirm")
                /\ (passes /\ ~ run.cond.confirm) =>
                       run.pc = "rejected" \/ run.body # "none"

(***************************************************************************)
(* Dialogs and splash overlays of a run (Spec).                            *)
(***************************************************************************)
\* C23: the acknowledgment of a step has only an accept outcome: however the
\* user dismisses the dialog, executeAction resumes and returns true, and
\* the run goes on; the awaited dialog never rejects.
C23_AckOnlyAccepts ==
    [][\A r \in 1..Len(runs) :
          (runs[r].pc = "ack" /\ runs'[r] # runs[r]) =>
              runs'[r].pc = "ret" /\ runs'[r].val = "true"]_vars

\* C24: a run holds at most one live splash overlay: before it shows a new
\* one it has hidden the one it held.
C24_OneSplashLive ==
    \A r \in 1..Len(runs) :
        /\ runs[r].live <= 1
        /\ runs[r].live = 1 <=> runs[r].splashDlg # "null"

\* A run showed a splash while it held one, and holds the new one
C24_Witness ==
    \E r \in 1..Len(runs) :
        /\ runs[r].replaced
        /\ runs[r].live = 1
        /\ runs[r].splashDlg = "2"

\* C25: when a run has ended, by whatever path, none of the splash overlays
\* it showed is still shown.
C25_NoSplashAtEnd ==
    \A r \in 1..Len(runs) : Ended(runs[r]) => runs[r].live = 0

\* C26: a step whose own condition failed (or threw) or whose own
\* confirmation was cancelled does not get its splash shown, the last and
\* finally steps included.
C26_SplashAfterSuccess ==
    [][\A r \in 1..Len(runs) :
          (/\ runs[r].pc = "ret"
           /\ runs[r].outcome \in {"condFalse", "condThrew", "cancelled"}
           /\ runs'[r] # runs[r]) =>
              runs'[r].splashDlg # StepName(runs[r])]_vars

\* C28: without Bootstrap no dialog and no splash makes a run fail: an
\* acknowledgment (window.alert) always continues with executeAction
\* returning true, a confirmation (window.confirm) either continues the step
\* or makes it return false, which gates the sequence off, and no splash
\* overlay is ever created or hidden.  A run is rejected only where
\* no dialog is involved: by the scrollTo keyword of a step or by the
\* replayed native handler throwing.
C28_NoBootstrapDegrades ==
    /\ [](~ bootstrap =>
             \A r \in 1..Len(runs) :
                 /\ runs[r].splashDlg = "null"
                 /\ runs[r].live = 0
                 /\ ~ runs[r].replaced
                 /\ runs[r].pc = "rejected" =>
                        runs[r].outcome \in {"threw", "nativeThrew"}
                 /\ runs[r].outcome = "cancelled" =>
                        runs[r].val = "false" /\ runs[r].fx = <<"confirm">>
                 /\ GatedOff(runs[r], "cancelled"))
    /\ [][~ bootstrap =>
             \A r \in 1..Len(runs) :
                 /\ (runs[r].pc = "ack" /\ runs'[r] # runs[r]) =>
                        runs'[r].pc = "ret" /\ runs'[r].val = "true"
                 /\ (runs[r].pc = "confirm" /\ runs'[r] # runs[r]) =>
                        \/ runs'[r] = Cancelled(runs[r])
                        \/ /\ runs'[r].outcome # "cancelled"
                           /\ runs'[r].pc = "rejected" =>
                                  runs'[r].outcome = "threw"]_vars

\* Without Bootstrap a run of several steps is at the acknowledgment of its
\* finally step, which was confirmed
C28_Witness ==
    \E r \in 1..Len(runs) :
        /\ ~ bootstrap
        /\ runs[r].kind = "finally"
        /\ runs[r].pc = "ack"
        /\ Contains(runs[r].fx, "confirm")
        /\ Len(runs[r].calls) = MaxSteps + 3

(***************************************************************************)
(* Several runs on one element (SpecRuns).                                 *)
(***************************************************************************)
\* C27: runs started on the same element proceed independently: a piece of
\* the handler executed for one run leaves the gating flag, the splash
\* handle and the live overlays of every other run as they are, so that a
\* run never hides or replaces an overlay another run showed.
C27_RunsIndependent ==
    [][\A q \in 1..Len(runs) :
          (\E r \in 1..Len(runs) : r # q /\ runs'[r] # runs[r]) =>
              /\ runs'[q].conditionMet = runs[q].conditionMet
              /\ runs'[q].splashDlg = runs[q].splashDlg
              /\ runs'[q].live = runs[q].live]_vars

\* The second run, started while the first was suspended, has shown its own
\* splash and the first run's is still live; the first run is in a delay
\* and the second at an acknowledgment
C27_Witness ==
    /\ Len(runs) = 2
    /\ runs[1].splashDlg = "first" /\ runs[1].live = 1
    /\ runs[2].splashDlg = "first" /\ runs[2].live = 1
    /\ runs[1].pc = "delay"
    /\ runs[2].pc = "ack"

NoSpaces(text) == SelectSeq(text, LAMBDA c : c # " ")

\* The delay a text of the form n, "n ms" or "n s" stands for, -1 for a
\* text of another form
Meant(text) ==
    LET t      == NoSpaces(text)
        digits == DigitPrefix(t)
        unit   == SubSeq(t, Len(digits) + 1, Len(t))
    IN  IF digits = <<>> \/ unit \notin {<<>>, <<"s">>, <<"m", "s">>} THEN -1
        ELSE IF unit = <<"s">> THEN 1000 * DecimalValue(digits)
        ELSE DecimalValue(digits)

\* C30: a data-class-delay text "<n>ms" delays the class change by n
\* milliseconds, "<n>s" by n * 1000 milliseconds and a bare number n by n
\* milliseconds ("500ms" gives 500).
C30_DelayUnits ==
    \A k \in 1..(MaxSuffix + 1) :
        (button.delays[k] # -1 /\ Meant(button.attrs[k].delay) # -1) =>
            button.delays[k] = Meant(button.attrs[k].delay)

(***************************************************************************)
(* makeScrollTarget (SpecScroll).                                          *)
(***************************************************************************)
\* C31: a click on an element prepared by makeScrollTarget that has no
\* data-scroll-to attribute raises no error and scrolls every target to the
\* top, leaving the horizontal offsets alone.
C31_DefaultScrollTop ==
    (step.result \notin {"none", "pending"} /\ ~ step.opts.given) =>
        /\ step.result = "returned"
        /\ \A k \in 1..Len(step.targets) :
               /\ step.targets[k].scrollTop = "start"
               /\ step.targets[k].scrollLeft = step.before[k].scrollLeft


(***************************************************************************)
(* The splash across the steps of a run (SpecSplash).                      *)
(***************************************************************************)
\* C32: a numbered step without splash attribute leaves the overlay of an
\* earlier step alone.  When the handler resumes from such a step the
\* reference and the number of overlays shown are, after the step's splash
\* handling, what they were before it, and the overlay has received no
\* modal.hide(); when the step rejected instead, the handler never resumes
\* and the overlay logged after the previous step is still the one shown.
C32_AbsentSplashUntouched ==
    /\ (step.kind = "numbered" /\ step.sa = "absent") =>
           /\ step.post = step.before
           /\ step.left = (IF step.before = "null" THEN 0 ELSE 1)
           /\ step.before \in Handles => step.hides[step.before] = 0
    /\ \A r \in 1..Len(runs) :
           (runs[r].pc = "rejected" /\ runs[r].kind = "numbered") =>
               /\ runs[r].splashDlg = step.post
               /\ runs[r].live = step.left

\* The overlay of the unsuffixed step is live, step 1 carries no splash
\* attribute and failed: the overlay is still the one referred to
C32_Witness ==
    /\ step.kind = "numbered" /\ step.sa = "absent"
    /\ step.before = "first" /\ step.post = "first" /\ step.left = 1
    /\ \E r \in 1..Len(runs) :
           /\ ~ Truthy(runs[r].conditionMet)
           /\ runs[r].splashDlg = "first"
           /\ runs[r].pc # "done"

\* C33: a numbered step whose splash attribute is "", "false" or "0" clears
\* the splash: once the handler is through the splash handling of that step
\* (line 404), the run refers to no overlay and shows none.
C33_ExplicitClear ==
    (step.kind = "numbered" /\ step.sa \in {"empty", "falseText"}) =>
        step.post = "null" /\ step.left = 0

C38_HideOncePerHandle ==
    /\ \A h \in Handles : step.hides[h] <= 1
    /\ \A r \in 1..Len(runs) :
           (runs[r].pc # "done" /\ runs[r].splashDlg \in Handles) =>
               step.hides[runs[r].splashDlg] = 0

\* A run that created three overlays and dismissed each of them once, the
\* last one at its end
C38_Witness ==
    /\ step.hides["first"] = 1 /\ step.hides["1"] = 1
    /\ step.hides["finally"] = 1
    /\ \E r \in 1..Len(runs) : runs[r].pc = "done" /\ runs[r].live = 0

(***************************************************************************)
(* Detaching under a run (SpecDetach).                                     *)
(***************************************************************************)
\* C37: a run during whose suspension removeEventActions was called for its
\* element and event type does not call the native handler, and still goes
\* through its steps: when it is over, the finally step has been called and,
\* unless a step gated it off, so have the numbered steps and the last step.
C37_DetachedRunNoReplay ==
    \A r \in 1..Len(runs) :
        LET run == runs[r]
            a   == attrs[run.type]
        IN  phase[run.type] = "removed" =>
                /\ run.replayed = 0
                /\ run.pc = "done" =>
                       /\ a.finally => "finally" \in run.started
                       /\ Truthy(run.conditionMet) =>
                              /\ a.last => "last" \in run.started
                              /\ Len(NumberedCalls(run)) = Prefix(a.numbered)

\* The element had an inline handler, it was detached during the run, the
\* run went through every step ungated and ended without calling the
\* handler, which is back in el.onclick
C37_Witness ==
    \E r \in 1..Len(runs) :
        /\ phase["click"] = "removed"
        /\ pageHandler["click"] = "native"
        /\ el.on["click"] = "native"
        /\ runs[r].pc = "done"
        /\ Truthy(runs[r].conditionMet)
        /\ runs[r].replayed = 0
        /\ {"first", "numbered", "last", "finally"} \subseteq runs[r].started

(***************************************************************************)
(* The chain of suffixes of the data-class-* family (SpecChain).           *)
(***************************************************************************)
\* C39: once the event is handled, the suffixes whose class change was made
\* are exactly those that are reached and neither skipped nor ending the
\* chain.  A suffix is skipped, the next one being reached, when its
\* condition is false or throws, or when it has a set list together with an
\* add, remove or toggle list; a suffix ends the chain when it is not
\* skipped and its selectors match no element, or its add, remove and
\* toggle lists share a name, or it has no class attribute at all.
C39_SkipOrEndChain ==
    LET o(k)    == button.attrs[k + 1]
        lists(k) == <<o(k).classAdd, o(k).classRemove, o(k).classToggle>>
        skips(k) ==
            \/ o(k).condition = "false"
            \/ /\ o(k).classSet # <<>>
               /\ \E n \in 1..3 : lists(k)[n] # <<>>
        shares(k) ==
            \E m, n \in 1..3 :
                m < n /\ Range(lists(k)[m]) \cap Range(lists(k)[n]) # {}
        ends(k) ==
            /\ ~ skips(k)
            /\ \/ ~ o(k).matches
               \/ shares(k)
               \/ o(k).classSet = <<>> /\ \A n \in 1..3 : lists(k)[n] = <<>>
        reached(k) == \A j \in 0..(k - 1) : ~ ends(j)
    IN  button.pc = "handled" =>
            \A k \in 0..MaxSuffix :
                Contains(button.applied, k) <=>
                    (reached(k) /\ ~ skips(k) /\ ~ ends(k))

\* The unsuffixed attributes combine set with add and are skipped; suffix 1
\* is reached (its delay is read), its add and toggle lists share a name
\* and the chain ends: suffix 2, which has a class to add, is never looked
\* at and no class change is made
C39_Witness ==
    /\ button.pc = "handled"
    /\ button.attrs[1].condition = "none"
    /\ button.attrs[1].classSet # <<>> /\ button.attrs[1].classAdd # <<>>
    /\ button.attrs[2].condition = "none" /\ button.attrs[2].matches
    /\ button.attrs[2].classSet = <<>>
    /\ button.attrs[2].classAdd = <<"a">> /\ button.attrs[2].classToggle = <<"a">>
    /\ button.attrs[3].classAdd = <<"a">>
    /\ button.delays[1] = -1 /\ button.delays[2] = 0 /\ button.delays[3] = -1
    /\ button.applied = <<>>

(***************************************************************************)
(* Termination of a run (SpecLive).                                        *)
(***************************************************************************)
\* C40: every run of the handler terminates: when every delay elapses and
\* every confirmation and acknowledgment is answered, a run that has started
\* gets to the end of the handler, past the replay of the native handler
\* and the last dismissal of the splash (line 468).
C40_RunTerminates ==
    \A r \in 1..MaxRuns :
        (r <= Len(runs)) ~> (r <= Len(runs) /\ runs[r].pc = "done")

====
